------------------------- MODULE TokenizerProofs -------------------------
(***************************************************************************)
(* The safety properties of Tokenizer, for every set of texts, character   *)
(* classes, contractions, artifacts and buffer sizes that satisfies        *)
(* TokenizerAssumption.                                                    *)
(*                                                                         *)
(* The pre-tokenizer, the merge pass and their reference definitions are   *)
(* recursive functions.  Each is first given by its equations (RunsFrom,   *)
(* StartsFrom, MergedFrom, IsFirsts); what it computes follows by          *)
(* induction from the end of the input, or along the symbols.  TokInv is   *)
(* the inductive invariant of the state machine.                           *)
(***************************************************************************)
EXTENDS Tokenizer, SequenceLemmas
-----------------------------------------------------------------------------
(* The characters of a segment.                                            *)

\* The sum of a position and the length of its character.
After(at, to) == at + CharLen(at, to)

\* A character is one or two bytes long and ends within the segment.
LEMMA CharLenRange ==
  ASSUME NEW at \in Int, NEW to \in Int, at < to
  PROVE  CharLen(at, to) \in {1, 2} /\ After(at, to) \in at + 1 .. to
  BY DEF CharLen, After

\* The positions of the characters, from each position on.
StartsFrom(at, to, st) ==
  \A k \in at .. to : /\ k >= to => st[k] = {}
                      /\ k < to => st[k] = {k} \cup st[After(k, to)]

\* Starts is the function its equations define.
LEMMA StartsDef ==
  ASSUME NEW at \in Int, NEW to \in Int, at <= to
  PROVE  \E st : StartsFrom(at, to, st) /\ Starts(at, to) = st[at]
  <1> DEFINE V   == SUBSET Int
             Go  == { k \in at .. to : k < to }
             nxt == [k \in at .. to |-> After(k, to)]
             F   == [kv \in (at .. to) \X V |-> {kv[1]} \cup kv[2]]
             e   == [k \in at .. to |-> {}]
             IsStarts(f) == f = [k \in at .. to |-> IF k >= to THEN {} ELSE {k} \cup f[k + CharLen(k, to)]]
  <1>1. LooksLater(at, to, Go, nxt)
    BY CharLenRange DEF LooksLater
  <1>2. \A k \in at .. to : \A v \in V : F[<<k, v>>] = {k} \cup v
    OBVIOUS
  <1>b. \A k \in at .. to : e[k] = {}
    OBVIOUS
  <1>a. StaysIn(at, to, V, F, e)
    <2>1. \A k \in at .. to : \A v \in V : {k} \cup v \in V
      OBVIOUS
    <2>2. {} \in V
      OBVIOUS
    <2> HIDE DEF V, F, e
    <2> QED BY <1>2, <1>b, <2>1, <2>2 DEF StaysIn
  <1>c. \A k \in at .. to : (k \in Go <=> ~(k >= to)) /\ nxt[k] = k + CharLen(k, to)
    BY DEF After
  <1> HIDE DEF V, Go, nxt, F, e
  <1>d. PICK g : SolvesDownward(g, at, to, V, Go, nxt, F, e)
    BY <1>1, <1>a, DownwardRecursion
  <1>3. /\ g \in [at .. to -> V]
        /\ \A k \in at .. to : g[k] = IF k \in Go THEN F[<<k, g[nxt[k]]>>] ELSE e[k]
    BY <1>d DEF SolvesDownward
  <1>4. IsStarts(g)
    <2>1. ASSUME NEW k \in at .. to
          PROVE  g[k] = IF k >= to THEN {} ELSE {k} \cup g[k + CharLen(k, to)]
      <3>1. CASE k \in Go
        <4>1. nxt[k] \in at .. to
          BY <1>1, <3>1 DEF LooksLater
        <4>2. g[nxt[k]] \in V
          BY <1>3, <4>1
        <4>3. g[k] = F[<<k, g[nxt[k]]>>]
          BY <1>3, <3>1
        <4>4. F[<<k, g[nxt[k]]>>] = {k} \cup g[nxt[k]]
          BY <1>2, <4>2
        <4>5. ~(k >= to) /\ nxt[k] = k + CharLen(k, to)
          BY <1>c, <3>1
        <4> QED BY <4>3, <4>4, <4>5
      <3>2. CASE k \notin Go
        <4>1. g[k] = e[k] /\ e[k] = {} /\ k >= to
          BY <1>b, <1>c, <1>3, <3>2
        <4> QED BY <4>1
      <3> QED BY <3>1, <3>2
    <2> QED BY <1>3, <2>1
  <1>5. IsStarts(CHOOSE f : IsStarts(f))
    BY <1>4
  <1>6. Starts(at, to) = (CHOOSE f : IsStarts(f))[at]
    BY DEF Starts
  <1>7. PICK h : IsStarts(h) /\ Starts(at, to) = h[at]
    BY <1>5, <1>6
  <1>8. StartsFrom(at, to, h)
    <2>1. \A k \in at .. to : h[k] = IF k >= to THEN {} ELSE {k} \cup h[k + CharLen(k, to)]
      BY <1>7
    <2>2. ASSUME NEW k \in at .. to, k >= to PROVE h[k] = {}
      BY <2>1, <2>2
    <2>3. ASSUME NEW k \in at .. to, k < to PROVE h[k] = {k} \cup h[After(k, to)]
      <3>1. ~(k >= to)
        BY <2>3
      <3> QED BY <2>1, <3>1 DEF After
    <2> QED BY <2>2, <2>3 DEF StartsFrom
  <1> QED BY <1>7, <1>8

\* The ends of the runs of one class, from each position on.
RunsFrom(from, to, class, run) ==
  \A k \in from .. to :
    /\ k < to /\ ClassAt(k, to) = class => run[k] = run[After(k, to)]
    /\ ~(k < to /\ ClassAt(k, to) = class) => run[k] = k

\* So is RunEnd.
LEMMA RunEndDef ==
  ASSUME NEW from \in Int, NEW to \in Int, from <= to, NEW class
  PROVE  \E run : RunsFrom(from, to, class, run) /\ RunEnd(from, to, class) = run[from]
  <1> DEFINE Go  == { k \in from .. to : k < to /\ ClassAt(k, to) = class }
             nxt == [k \in from .. to |-> k + CharLen(k, to)]
             IsRun(f) == f = [k \in from .. to |-> IF k < to /\ ClassAt(k, to) = class
                                                   THEN f[k + CharLen(k, to)] ELSE k]
  <1>1. LooksLater(from, to, Go, nxt)
    BY CharLenRange DEF After, LooksLater
  <1>2. \A k \in from .. to : k \in Go <=> k < to /\ ClassAt(k, to) = class
    OBVIOUS
  <1>a. \A k \in from .. to : nxt[k] = k + CharLen(k, to)
    OBVIOUS
  <1> HIDE DEF Go, nxt
  <1>d. PICK g : JumpsTo(g, from, to, Go, nxt)
    BY <1>1, JumpExists
  <1>3. /\ g \in [from .. to -> from .. to]
        /\ \A k \in from .. to : g[k] = IF k \in Go THEN g[nxt[k]] ELSE k
    BY <1>d DEF JumpsTo
  <1>4. IsRun(g)
    <2>1. ASSUME NEW k \in from .. to
          PROVE  g[k] = IF k < to /\ ClassAt(k, to) = class THEN g[k + CharLen(k, to)] ELSE k
      <3>1. nxt[k] = k + CharLen(k, to)
        BY <1>a
      <3>2. k \in Go <=> k < to /\ ClassAt(k, to) = class
        BY <1>2
      <3> QED BY <1>3, <3>1, <3>2, Zenon
    <2> QED BY <1>3, <2>1
  <1>5. IsRun(CHOOSE f : IsRun(f))
    BY <1>4
  <1>6. RunEnd(from, to, class) = (CHOOSE f : IsRun(f))[from]
    BY DEF RunEnd
  <1>7. PICK h : IsRun(h) /\ RunEnd(from, to, class) = h[from]
    BY <1>5, <1>6
  <1>8. RunsFrom(from, to, class, h)
    BY <1>7 DEF RunsFrom, After
  <1> QED BY <1>7, <1>8

\* The last characters of the runs.
LastsFrom(from, to, class, last) ==
  \A k \in from .. to :
    LET next == After(k, to) IN
    /\ next < to /\ ClassAt(next, to) = class => last[k] = last[next]
    /\ ~(next < to /\ ClassAt(next, to) = class) => last[k] = k

\* So is LastOfRun.
LEMMA LastOfRunDef ==
  ASSUME NEW from \in Int, NEW to \in Int, from <= to, NEW class
  PROVE  \E last : LastsFrom(from, to, class, last) /\ LastOfRun(from, to, class) = last[from]
  <1> DEFINE Go  == { k \in from .. to : After(k, to) < to /\ ClassAt(After(k, to), to) = class }
             nxt == [k \in from .. to |-> After(k, to)]
             IsLast(f) == f = [k \in from .. to |->
                                 IF After(k, to) < to /\ ClassAt(After(k, to), to) = class
                                 THEN f[After(k, to)] ELSE k]
  <1>1. LooksLater(from, to, Go, nxt)
    <2> SUFFICES ASSUME NEW k \in from .. to, After(k, to) < to
                 PROVE  After(k, to) \in k + 1 .. to
      BY DEF LooksLater
    <2>1. After(k, to) \in {k + 1, k + 2}
      BY DEF After, CharLen
    <2> QED BY <2>1
  <1>2. \A k \in from .. to : k \in Go <=> After(k, to) < to /\ ClassAt(After(k, to), to) = class
    OBVIOUS
  <1>a. \A k \in from .. to : nxt[k] = After(k, to)
    OBVIOUS
  <1> HIDE DEF Go, nxt
  <1>d. PICK g : JumpsTo(g, from, to, Go, nxt)
    BY <1>1, JumpExists
  <1>3. /\ g \in [from .. to -> from .. to]
        /\ \A k \in from .. to : g[k] = IF k \in Go THEN g[nxt[k]] ELSE k
    BY <1>d DEF JumpsTo
  <1>4. IsLast(g)
    <2>1. ASSUME NEW k \in from .. to
          PROVE  g[k] = IF After(k, to) < to /\ ClassAt(After(k, to), to) = class
                        THEN g[After(k, to)] ELSE k
      <3>1. nxt[k] = After(k, to)
        BY <1>a
      <3>2. k \in Go <=> After(k, to) < to /\ ClassAt(After(k, to), to) = class
        BY <1>2
      <3> QED BY <1>3, <3>1, <3>2, Zenon
    <2> QED BY <1>3, <2>1
  <1>5. IsLast(CHOOSE f : IsLast(f))
    BY <1>4
  <1>6. LastOfRun(from, to, class) = (CHOOSE f : IsLast(f))[from]
    BY DEF LastOfRun, After
  <1>7. PICK h : IsLast(h) /\ LastOfRun(from, to, class) = h[from]
    BY <1>5, <1>6
  <1>8. LastsFrom(from, to, class, h)
    BY <1>7 DEF LastsFrom
  <1> QED BY <1>7, <1>8

\* A character begins at or after the position, and before the end.
LEMMA StartsRange ==
  ASSUME NEW at \in Int, NEW to \in Int, NEW st, StartsFrom(at, to, st)
  PROVE  \A k \in at .. to : /\ \A j \in st[k] : j \in k .. to - 1
                             /\ k < to => k \in st[k]
  <1> DEFINE S == { k \in Int : \A j \in st[k] : j \in k .. to - 1 }
  <1>1. ASSUME NEW k \in at .. to, \A j \in k + 1 .. to : j \in S PROVE k \in S
    <2>1. CASE k >= to
      <3>1. st[k] = {}
        BY <2>1 DEF StartsFrom
      <3> QED BY <3>1
    <2>2. CASE ~(k >= to)
      <3>1. st[k] = {k} \cup st[After(k, to)]
        BY <2>2 DEF StartsFrom
      <3>2. After(k, to) \in k + 1 .. to
        BY <2>2, CharLenRange
      <3>3. \A j \in st[After(k, to)] : j \in After(k, to) .. to - 1
        BY <1>1, <3>2
      <3>4. \A j \in st[After(k, to)] : j \in k .. to - 1
        BY <3>2, <3>3
      <3> QED BY <2>2, <3>1, <3>4
    <2> QED BY <2>1, <2>2
  <1>2. \A k \in at .. to : k \in S
    <2> HIDE DEF S
    <2> QED BY <1>1, DownwardInduction
  <1>3. ASSUME NEW k \in at .. to, k < to PROVE k \in st[k]
    <2>1. st[k] = {k} \cup st[After(k, to)]
      BY <1>3 DEF StartsFrom
    <2> QED BY <2>1
  <1> QED BY <1>2, <1>3

\* The run from every position: where it ends, and that no character on the way
\* is of another class.
LEMMA RunsProperties ==
  ASSUME NEW from \in Int, NEW to \in Int, NEW class, NEW st, NEW run,
         StartsFrom(from, to, st), RunsFrom(from, to, class, run)
  PROVE  \A k \in from .. to :
           /\ run[k] \in k .. to /\ run[k] \in st[k] \cup {to}
           /\ \A j \in st[k] : j < run[k] => ClassAt(j, to) = class
           /\ run[k] < to => ClassAt(run[k], to) # class
           /\ k < to /\ ClassAt(k, to) = class => run[k] >= After(k, to)
  <1> DEFINE Good(k) ==
               /\ run[k] \in k .. to /\ run[k] \in st[k] \cup {to}
               /\ \A j \in st[k] : j < run[k] => ClassAt(j, to) = class
               /\ run[k] < to => ClassAt(run[k], to) # class
               /\ k < to /\ ClassAt(k, to) = class => run[k] >= After(k, to)
             S == { k \in Int : Good(k) }
  <1>0. \A k \in from .. to : /\ \A j \in st[k] : j \in k .. to - 1
                              /\ k < to => k \in st[k]
    BY StartsRange
  <1>1. ASSUME NEW k \in from .. to, \A j \in k + 1 .. to : j \in S PROVE k \in S
    <2>1. CASE k < to /\ ClassAt(k, to) = class
      <3> DEFINE a == After(k, to)
      <3>1. a \in k + 1 .. to /\ a \in from .. to
        BY <2>1, CharLenRange
      <3>8. run[k] = run[a]
        BY <2>1 DEF RunsFrom
      <3>9. st[k] = {k} \cup st[a]
        BY <2>1 DEF StartsFrom
      <3>2. run[k] = run[a] /\ st[k] = {k} \cup st[a]
        BY <3>8, <3>9
      <3>3. Good(a)
        BY <1>1, <3>1
      <3> HIDE DEF a
      <3>4. run[k] \in k .. to /\ run[k] \in st[k] \cup {to}
        BY <3>1, <3>2, <3>3
      <3>5. \A j \in st[k] : j < run[k] => ClassAt(j, to) = class
        BY <2>1, <3>2, <3>3
      <3>6. run[k] < to => ClassAt(run[k], to) # class
        BY <3>2, <3>3
      <3>7. run[k] >= a
        BY <3>1, <3>2, <3>3
      <3> QED BY <3>4, <3>5, <3>6, <3>7 DEF a
    <2>2. CASE ~(k < to /\ ClassAt(k, to) = class)
      <3>1. run[k] = k
        BY <2>2 DEF RunsFrom
      <3>2. \A j \in st[k] : ~(j < k)
        BY <1>0
      <3>3. k \in st[k] \cup {to}
        BY <1>0
      <3> QED BY <2>2, <3>1, <3>2, <3>3
    <2> QED BY <2>1, <2>2
  <1>2. \A k \in from .. to : k \in S
    <2> HIDE DEF S
    <2> QED BY <1>1, DownwardInduction
  <1> QED BY <1>2

\* The last character of the run from every position.
LEMMA LastsProperties ==
  ASSUME NEW from \in Int, NEW to \in Int, NEW class, NEW st, NEW run, NEW last,
         StartsFrom(from, to, st), RunsFrom(from, to, class, run),
         LastsFrom(from, to, class, last)
  PROVE  \A k \in from .. to :
           k < to /\ ClassAt(k, to) = class =>
             /\ last[k] \in st[k] /\ last[k] < run[k] /\ last[k] \in k .. to
             /\ \A j \in st[k] : j > last[k] => j >= run[k]
  <1> DEFINE Good(k) ==
               k < to /\ ClassAt(k, to) = class =>
                 /\ last[k] \in st[k] /\ last[k] < run[k] /\ last[k] \in k .. to
                 /\ \A j \in st[k] : j > last[k] => j >= run[k]
             S == { k \in Int : Good(k) }
  <1>0. \A k \in from .. to : /\ \A j \in st[k] : j \in k .. to - 1
                              /\ k < to => k \in st[k]
    BY StartsRange
  <1>1. ASSUME NEW k \in from .. to, \A j \in k + 1 .. to : j \in S PROVE k \in S
    <2> SUFFICES ASSUME k < to, ClassAt(k, to) = class
                 PROVE  /\ last[k] \in st[k] /\ last[k] < run[k] /\ last[k] \in k .. to
                        /\ \A j \in st[k] : j > last[k] => j >= run[k]
      OBVIOUS
    <2> DEFINE a == After(k, to)
    <2>1. a \in k + 1 .. to /\ a \in from .. to
      BY CharLenRange
    <2>6. run[k] = run[a]
      BY DEF RunsFrom
    <2>7. st[k] = {k} \cup st[a]
      BY DEF StartsFrom
    <2>2. run[k] = run[a] /\ st[k] = {k} \cup st[a]
      BY <2>6, <2>7
    <2>3. Good(a)
      BY <1>1, <2>1
    <2>4. CASE a < to /\ ClassAt(a, to) = class
      <3>1. last[k] = last[a]
        BY <2>4 DEF LastsFrom
      <3>2. /\ last[a] \in st[a] /\ last[a] < run[a] /\ last[a] \in a .. to
            /\ \A j \in st[a] : j > last[a] => j >= run[a]
        BY <2>3, <2>4
      <3> HIDE DEF a
      <3>3. \A j \in st[k] : j > last[k] => j >= run[k]
        BY <2>1, <2>2, <3>1, <3>2
      <3> QED BY <2>1, <2>2, <3>1, <3>2, <3>3
    <2>5. CASE ~(a < to /\ ClassAt(a, to) = class)
      <3>1. last[k] = k
        BY <2>5 DEF LastsFrom
      <3>2. run[a] = a
        BY <2>1, <2>5 DEF RunsFrom
      <3>3. \A j \in st[a] : j >= a
        BY <1>0, <2>1
      <3> HIDE DEF a
      <3> QED BY <2>1, <2>2, <3>1, <3>2, <3>3
    <2> QED BY <2>4, <2>5
  <1>2. \A k \in from .. to : k \in S
    <2> HIDE DEF S
    <2> QED BY <1>1, DownwardInduction
  <1> QED BY <1>2

\* A run ends where the longest repetition of its class does.
LEMMA RunEndIsLongest ==
  ASSUME NEW from \in Int, NEW to \in Int, from < to, NEW class, ClassAt(from, to) = class
  PROVE  /\ RunEnd(from, to, class) \in from + 1 .. to
         /\ AllOf(class, from, RunEnd(from, to, class), to)
         /\ \A e : AllOf(class, from, e, to) => e <= RunEnd(from, to, class)
         /\ RunEnd(from, to, class) < to => ClassAt(RunEnd(from, to, class), to) # class
  <1>1. PICK st : StartsFrom(from, to, st) /\ Starts(from, to) = st[from]
    BY StartsDef
  <1>2. PICK run : RunsFrom(from, to, class, run) /\ RunEnd(from, to, class) = run[from]
    BY RunEndDef
  <1> DEFINE R == run[from]
  <1>3. /\ R \in from .. to /\ R \in st[from] \cup {to}
        /\ \A j \in st[from] : j < R => ClassAt(j, to) = class
        /\ R < to => ClassAt(R, to) # class
        /\ R >= After(from, to)
    BY <1>1, <1>2, RunsProperties
  <1>4. After(from, to) \in from + 1 .. to
    BY CharLenRange
  <1>5. \A j \in st[from] : j \in from .. to - 1
    BY <1>1, StartsRange
  <1> HIDE DEF R
  <1>6. R \in from + 1 .. to
    BY <1>3, <1>4
  <1>7. AllOf(class, from, R, to)
    BY <1>1, <1>3, <1>6 DEF AllOf
  <1>8. ASSUME NEW e, AllOf(class, from, e, to) PROVE e <= R
    <2>1. e \in st[from] \cup {to} /\ \A j \in st[from] : j < e => ClassAt(j, to) = class
      BY <1>1, <1>8 DEF AllOf
    <2>2. e \in Int
      BY <1>5, <2>1
    <2> SUFFICES ASSUME R < e PROVE FALSE
      BY <1>6, <2>2
    <2>3. R < to
      BY <1>5, <1>6, <2>1
    <2> QED BY <1>3, <2>1, <2>3
  <1> QED BY <1>2, <1>3, <1>6, <1>7, <1>8 DEF R

\* Its last character begins where the longest shorter repetition ends, if there is one.
LEMMA LastOfRunIsLongest ==
  ASSUME NEW from \in Int, NEW to \in Int, from < to, NEW class, ClassAt(from, to) = class
  PROVE  LET last == LastOfRun(from, to, class)
             end  == RunEnd(from, to, class)
         IN  /\ last \in from .. end - 1 /\ ClassAt(last, to) = class
             /\ last # from => AllOf(class, from, last, to)
             /\ \A e : AllOf(class, from, e, to) /\ e # end /\ end < to => e <= last
  <1>1. PICK st : StartsFrom(from, to, st) /\ Starts(from, to) = st[from]
    BY StartsDef
  <1>2. PICK run : RunsFrom(from, to, class, run) /\ RunEnd(from, to, class) = run[from]
    BY RunEndDef
  <1>3. PICK lst : LastsFrom(from, to, class, lst) /\ LastOfRun(from, to, class) = lst[from]
    BY LastOfRunDef
  <1> DEFINE R == run[from]
             L == lst[from]
  <1>4. /\ R \in from .. to /\ R \in st[from] \cup {to}
        /\ \A j \in st[from] : j < R => ClassAt(j, to) = class
    BY <1>1, <1>2, RunsProperties
  <1>5. /\ L \in st[from] /\ L < R /\ L \in from .. to
        /\ \A j \in st[from] : j > L => j >= R
    BY <1>1, <1>2, <1>3, LastsProperties
  <1>6. \A j \in st[from] : j \in from .. to - 1
    BY <1>1, StartsRange
  <1>7. \A e : AllOf(class, from, e, to) => e <= R
    BY <1>2, RunEndIsLongest
  <1> HIDE DEF R, L
  <1>8. L \in from .. R - 1 /\ ClassAt(L, to) = class
    BY <1>4, <1>5
  <1>9. L # from => AllOf(class, from, L, to)
    <2>1. \A j \in st[from] : j < L => ClassAt(j, to) = class
      BY <1>4, <1>5, <1>6
    <2> QED BY <1>1, <1>5, <2>1 DEF AllOf
  <1>10. ASSUME NEW e, AllOf(class, from, e, to), e # R, R < to PROVE e <= L
    <2>1. e \in st[from] \cup {to} /\ e <= R
      BY <1>1, <1>7, <1>10 DEF AllOf
    <2>2. e \in st[from] /\ e \in Int
      BY <1>4, <1>6, <1>10, <2>1
    <2> QED BY <1>4, <1>5, <1>10, <2>1, <2>2
  <1>11. \A e : AllOf(class, from, e, to) /\ e # R /\ R < to => e <= L
    BY <1>10
  <1> QED BY <1>2, <1>3, <1>8, <1>9, <1>11 DEF R, L

-----------------------------------------------------------------------------
(* The piece of the code is the piece of the pattern.                      *)

\* The least of a set is the element below all the others.
LEMMA LeastIs ==
  ASSUME NEW S \in SUBSET Int, NEW m \in S, \A q \in S : m <= q
  PROVE  Least(S) = m
  <1>1. Least(S) \in S /\ \A q \in S : Least(S) <= q
    BY DEF Least
  <1>2. Least(S) <= m /\ m <= Least(S) /\ Least(S) \in Int /\ m \in Int
    BY <1>1
  <1> QED BY <1>2

\* The input is a sequence of bytes.
LEMMA TextFacts ==
  ASSUME text \in Texts
  PROVE  /\ text \in Seq(Range(text)) /\ Len(text) \in Nat
         /\ End = Len(text) + 1 /\ End \in Nat
  <1>1. text \in Seq(Range(text))
    BY TokenizerAssumption
  <1> QED BY <1>1, LenProperties DEF End

\* The bytes between two positions.
LEMMA BytesProperties ==
  ASSUME text \in Texts, NEW at \in 1 .. End, NEW to \in at .. End
  PROVE  /\ text \in Seq(Range(text)) /\ Len(text) \in Nat /\ End = Len(text) + 1
         /\ Bytes(at, to) \in Seq(Range(text)) /\ Len(Bytes(at, to)) = to - at
         /\ \A k \in 1 .. to - at : Bytes(at, to)[k] = text[at + k - 1]
  <1>1. text \in Seq(Range(text))
    BY TextFacts
  <1>2. Len(text) \in Nat /\ End = Len(text) + 1
    BY TextFacts
  <1>3. \A k \in at .. to - 1 : text[k] \in Range(text)
    <2>1. \A k \in at .. to - 1 : k \in 1 .. Len(text)
      BY <1>2
    <2> QED BY <1>1, <2>1, ElementOfSeq
  <1>4. at \in Int /\ to - 1 \in Int /\ to - 1 - at + 1 = to - at
    BY <1>2
  <1>5. /\ SubSeq(text, at, to - 1) \in Seq(Range(text))
        /\ Len(SubSeq(text, at, to - 1)) = IF at <= to - 1 THEN to - 1 - at + 1 ELSE 0
        /\ \A k \in 1 .. to - 1 - at + 1 : SubSeq(text, at, to - 1)[k] = text[at + k - 1]
    BY <1>3, <1>4, SubSeqProperties
  <1>6. (IF at <= to - 1 THEN to - 1 - at + 1 ELSE 0) = to - at
    BY <1>2
  <1> QED BY <1>1, <1>2, <1>4, <1>5, <1>6 DEF Bytes

\* At most one contraction begins at a position.
LEMMA OneContraction ==
  ASSUME text \in Texts, NEW to \in 1 .. End, NEW at \in 1 .. to,
         NEW c \in Contracted(at, to), NEW d \in Contracted(at, to)
  PROVE  c = d
  <1>0. End \in Nat
    BY TextFacts
  <1>1. ASSUME NEW a \in Contracted(at, to)
        PROVE  /\ a \in Contractions /\ Len(a) \in Nat \ {0} /\ at + Len(a) \in at .. End
               /\ a \in Seq(Range(text)) /\ \A k \in 1 .. Len(a) : a[k] = text[at + k - 1]
    <2>1. /\ a \in Contractions /\ Len(a) \in Nat \ {0} /\ at + Len(a) <= to
          /\ Bytes(at, at + Len(a)) = a
      BY TokenizerAssumption DEF Contracted
    <2>2. at + Len(a) \in at .. End /\ (at + Len(a)) - at = Len(a) /\ at \in 1 .. End
      BY <1>0, <2>1
    <2>3. a \in Seq(Range(text)) /\ \A k \in 1 .. (at + Len(a)) - at : a[k] = text[at + k - 1]
      BY <2>1, <2>2, BytesProperties, ZenonT(30)
    <2> QED BY <2>1, <2>2, <2>3
  <1>2. ASSUME NEW a \in Contracted(at, to), NEW b \in Contracted(at, to), Len(a) <= Len(b)
        PROVE  a = b
    <2> DEFINE u == SubSeq(a, 1, Len(a))
               v == SubSeq(b, 1, Len(a))
    <2>1. /\ a \in Seq(Range(text)) /\ b \in Seq(Range(text))
          /\ Len(a) \in 0 .. Len(a) /\ Len(a) \in 0 .. Len(b)
          /\ \A k \in 1 .. Len(a) : a[k] = text[at + k - 1]
          /\ \A k \in 1 .. Len(b) : b[k] = text[at + k - 1]
      BY <1>1, <1>2
    <2>2. u \in Seq(Range(text)) /\ Len(u) = Len(a) /\ \A k \in 1 .. Len(a) : u[k] = a[k]
      BY <2>1, PrefixProperties
    <2>3. v \in Seq(Range(text)) /\ Len(v) = Len(a) /\ \A k \in 1 .. Len(a) : v[k] = b[k]
      BY <2>1, PrefixProperties
    <2> HIDE DEF u, v
    <2>4. \A k \in 1 .. Len(a) : a[k] = b[k]
      <3>1. \A k \in 1 .. Len(a) : k \in 1 .. Len(b)
        BY <1>1, <1>2
      <3> QED BY <2>1, <3>1
    <2>5. u = v
      BY <2>2, <2>3, <2>4, SeqEqual
    <2>6. IsPrefix(a, b)
      BY <1>2, <2>5 DEF IsPrefix, u, v
    <2> QED BY <1>1, <2>6, TokenizerAssumption
  <1>3. Len(c) <= Len(d) \/ Len(d) <= Len(c)
    BY <1>1
  <1> QED BY <1>2, <1>3

\* A space is one character, of class "space".
LEMMA SpaceIsSpace ==
  ASSUME text \in Texts, NEW at \in 1 .. Len(text), text[at] = SpaceByte, NEW to \in Int
  PROVE  ClassAt(at, to) = "space"
  <1>1. at \in 1 .. End /\ at + 1 \in at .. End /\ (at + 1) - at = 1 /\ at + 1 - 1 = at
    BY TextFacts
  <1>2. /\ Bytes(at, at + 1) \in Seq(Range(text)) /\ Len(Bytes(at, at + 1)) = 1
        /\ Bytes(at, at + 1)[1] = text[at] /\ text \in Seq(Range(text))
    <2> DEFINE e == at + 1
    <2>1. e \in at .. End /\ e - at = 1 /\ 1 \in 1 .. 1 /\ at + 1 - 1 = at
      BY <1>1
    <2> HIDE DEF e
    <2>2. /\ Bytes(at, e) \in Seq(Range(text)) /\ Len(Bytes(at, e)) = e - at
          /\ \A k \in 1 .. e - at : Bytes(at, e)[k] = text[at + k - 1]
      BY <1>1, <2>1, BytesProperties
    <2>3. Bytes(at, e)[1] = text[at]
      BY <2>1, <2>2
    <2> QED BY <2>1, <2>2, <2>3, TextFacts DEF e
  <1>3. Bytes(at, at + 1) = <<SpaceByte>>
    <2>1. text[at] \in Range(text)
      BY <1>2, ElementOfSeq
    <2>2. <<text[at]>> \in Seq(Range(text)) /\ Len(<<text[at]>>) = 1 /\ <<text[at]>>[1] = text[at]
      BY <2>1
    <2> QED BY <1>2, <2>2, SeqEqual
  <1>4. CharLen(at, to) = 1
    BY <1>3, TokenizerAssumption DEF CharLen
  <1> QED BY <1>3, <1>4, TokenizerAssumption DEF ClassAt

-----------------------------------------------------------------------------
(* The piece is the one the pattern cuts.                                  *)

\* Where the n-th alternative of the pattern can end.
Ends(n, at, to) == { e \in at + 1 .. to : Alternative(n, at, e, to) }

\* The first alternative with a match, at its longest.
LEMMA PatternEndIs ==
  ASSUME NEW at \in Int, NEW to \in Int, NEW m \in 1 .. 6, NEW e \in Ends(m, at, to),
         \A k \in 1 .. 6 : k < m => Ends(k, at, to) = {},
         \A f \in Ends(m, at, to) : f <= e
  PROVE  PatternEnd(at, to) = e
  <1> DEFINE S == { k \in 1 .. 6 : Ends(k, at, to) # {} }
             c == CHOOSE x \in Ends(m, at, to) : \A f \in Ends(m, at, to) : f <= x
  <1>1. S \in SUBSET Int /\ m \in S /\ \A q \in S : m <= q
    OBVIOUS
  <1> HIDE DEF S
  <1>2. Least(S) = m
    BY <1>1, LeastIs
  <1>3. PatternEnd(at, to) = c
    BY <1>2 DEF PatternEnd, Ends, S
  <1>4. c \in Ends(m, at, to) /\ \A f \in Ends(m, at, to) : f <= c
    OBVIOUS
  <1>5. \A f \in Ends(m, at, to) : f \in Int
    BY DEF Ends
  <1> HIDE DEF c
  <1>6. c <= e /\ e <= c /\ c \in Int /\ e \in Int
    BY <1>4, <1>5
  <1> QED BY <1>3, <1>6

\* The alternatives, one by one.
LEMMA Alternatives ==
  ASSUME NEW at, NEW to, NEW e
  PROVE  /\ Alternative(1, at, e, to) <=> Bytes(at, e) \in Contractions
         /\ \A n \in 2 .. 4 :
              Alternative(n, at, e, to) <=>
                \/ AllOf(<<"letter", "number", "other">>[n - 1], at, e, to)
                \/ /\ text[at] = SpaceByte /\ at + 1 < to
                   /\ AllOf(<<"letter", "number", "other">>[n - 1], at + 1, e, to)
         /\ Alternative(5, at, e, to) <=> /\ AllOf("space", at, e, to)
                                          /\ e < to => ClassAt(e, to) = "space"
         /\ Alternative(6, at, e, to) <=> AllOf("space", at, e, to)
  BY DEF Alternative

\* What repeats from a position has the class of the character there.
LEMMA AllOfClass ==
  ASSUME NEW at \in Int, NEW to \in Int, at < to, NEW e, NEW class, AllOf(class, at, e, to)
  PROVE  ClassAt(at, to) = class /\ e \in at + 1 .. to
  <1>1. PICK st : StartsFrom(at, to, st) /\ Starts(at, to) = st[at]
    BY StartsDef
  <1>2. at \in st[at] /\ \A j \in st[at] : j \in at .. to - 1
    BY <1>1, StartsRange
  <1> QED BY <1>1, <1>2 DEF AllOf

\* A piece is not empty, stays in its segment, and is the one the pattern cuts.
LEMMA PieceEndIsPattern ==
  ASSUME text \in Texts, NEW to \in 1 .. End, NEW at \in 1 .. to - 1
  PROVE  PieceEnd(at, to) \in at + 1 .. to /\ PieceEnd(at, to) = PatternEnd(at, to)
  <1> DEFINE from  == IF text[at] = SpaceByte /\ at + 1 < to THEN at + 1 ELSE at
             class == ClassAt(from, to)
             end   == RunEnd(at, to, "space")
             last  == LastOfRun(at, to, "space")
             E(n)  == Ends(n, at, to)
             names == <<"letter", "number", "other">>
  <1>0. /\ Len(text) \in Nat /\ End = Len(text) + 1
        /\ at \in Int /\ to \in Int /\ at < to /\ at \in 1 .. Len(text)
        /\ from \in at .. to - 1 /\ from \in Int /\ from < to
    BY TextFacts
  <1>a. text[at] = SpaceByte => ClassAt(at, to) = "space"
    BY <1>0, SpaceIsSpace
  <1>b. E(1) = {} <=> Contracted(at, to) = {}
    <2>1. ASSUME NEW e \in E(1) PROVE Bytes(at, e) \in Contracted(at, to)
      <3>1. e \in at + 1 .. to /\ Bytes(at, e) \in Contractions
        BY Alternatives DEF Ends
      <3>2. e \in at .. End /\ at \in 1 .. End
        BY <1>0, <3>1
      <3>3. Len(Bytes(at, e)) = e - at
        BY <3>2, BytesProperties
      <3>4. at + Len(Bytes(at, e)) = e
        BY <1>0, <3>1, <3>3
      <3> QED BY <3>1, <3>4 DEF Contracted
    <2>2. ASSUME NEW c \in Contracted(at, to) PROVE at + Len(c) \in E(1)
      <3>1. /\ c \in Contractions /\ at + Len(c) <= to /\ Bytes(at, at + Len(c)) = c
            /\ Len(c) \in Nat \ {0}
        BY TokenizerAssumption DEF Contracted
      <3>2. at + Len(c) \in at + 1 .. to
        BY <1>0, <3>1
      <3> QED BY <3>1, <3>2, Alternatives DEF Ends
    <2> QED BY <2>1, <2>2
  <1>1. CASE Contracted(at, to) # {}
    <2> DEFINE c == CHOOSE x \in Contracted(at, to) : TRUE
    <2>1. c \in Contracted(at, to) /\ PieceEnd(at, to) = at + Len(c)
      BY <1>1 DEF PieceEnd
    <2> HIDE DEF c
    <2>2. /\ c \in Contractions /\ at + Len(c) <= to /\ Bytes(at, at + Len(c)) = c
          /\ Len(c) \in Nat \ {0}
      BY <2>1, TokenizerAssumption DEF Contracted
    <2>3. at + Len(c) \in at + 1 .. to
      BY <1>0, <2>2
    <2>4. at + Len(c) \in E(1)
      BY <2>2, <2>3, Alternatives DEF Ends
    <2>5. ASSUME NEW e \in E(1) PROVE e <= at + Len(c)
      <3>1. e \in at + 1 .. to /\ Bytes(at, e) \in Contractions
        BY Alternatives DEF Ends
      <3>2. e \in at .. End /\ at \in 1 .. End
        BY <1>0, <3>1
      <3>3. Len(Bytes(at, e)) = e - at
        BY <3>2, BytesProperties
      <3>4. at + Len(Bytes(at, e)) = e
        BY <1>0, <3>1, <3>3
      <3>5. Bytes(at, e) \in Contracted(at, to)
        BY <3>1, <3>4 DEF Contracted
      <3>6. Bytes(at, e) = c
        BY <1>0, <2>1, <3>5, OneContraction
      <3> QED BY <1>0, <2>3, <3>1, <3>4, <3>6
    <2>6. PatternEnd(at, to) = at + Len(c)
      <3>1. 1 \in 1 .. 6 /\ \A k \in 1 .. 6 : k < 1 => Ends(k, at, to) = {}
        OBVIOUS
      <3> QED BY <1>0, <2>4, <2>5, <3>1, PatternEndIs
    <2> QED BY <2>1, <2>3, <2>6
  <1>2. CASE Contracted(at, to) = {} /\ class # "space"
    <2>1. PieceEnd(at, to) = RunEnd(from, to, class)
      BY <1>2 DEF PieceEnd
    <2> DEFINE e == RunEnd(from, to, class)
    <2>2. /\ e \in from + 1 .. to /\ AllOf(class, from, e, to)
          /\ \A f : AllOf(class, from, f, to) => f <= e
      BY <1>0, RunEndIsLongest
    <2>3. e \in at + 1 .. to
      BY <1>0, <2>2
    <2>4. PICK m \in 2 .. 4 : names[m - 1] = class
      <3>1. class \in {"letter", "number", "other"}
        BY <1>2, TokenizerAssumption DEF ClassAt, Classes
      <3>2. names[2 - 1] = "letter" /\ names[3 - 1] = "number" /\ names[4 - 1] = "other"
        OBVIOUS
      <3> QED BY <3>1, <3>2
    <2>5. \A k \in 2 .. 4 : names[k - 1] # "space" /\ (k # m => names[k - 1] # class)
      BY <2>4
    <2> HIDE DEF e, class, names
    <2>6. e \in E(m)
      <3>1. CASE from = at
        BY <2>2, <2>3, <2>4, <3>1, Alternatives DEF Ends, names
      <3>2. CASE from # at
        <4>1. text[at] = SpaceByte /\ at + 1 < to /\ from = at + 1
          BY <3>2
        <4> QED BY <2>2, <2>3, <2>4, <4>1, Alternatives DEF Ends, names
      <3> QED BY <3>1, <3>2
    <2>7. ASSUME NEW k \in 2 .. 4, NEW f \in E(k) PROVE k = m /\ f <= e
      <3>1. \/ AllOf(names[k - 1], at, f, to)
            \/ text[at] = SpaceByte /\ at + 1 < to /\ AllOf(names[k - 1], at + 1, f, to)
        BY <2>7, Alternatives DEF Ends, names
      <3>2. CASE AllOf(names[k - 1], at, f, to)
        <4>1. ClassAt(at, to) = names[k - 1]
          BY <1>0, <3>2, AllOfClass
        <4>2. from = at
          BY <1>a, <2>5, <4>1
        <4>3. names[k - 1] = class
          BY <4>1, <4>2 DEF class
        <4> QED BY <2>2, <2>5, <3>2, <4>2, <4>3
      <3>3. CASE text[at] = SpaceByte /\ at + 1 < to /\ AllOf(names[k - 1], at + 1, f, to)
        <4>1. from = at + 1
          BY <3>3
        <4>2. ClassAt(from, to) = names[k - 1]
          BY <1>0, <3>3, <4>1, AllOfClass
        <4>3. names[k - 1] = class
          BY <4>2 DEF class
        <4> QED BY <2>2, <2>5, <3>3, <4>1, <4>3
      <3> QED BY <3>1, <3>2, <3>3
    <2>8. \A k \in 1 .. 6 : k < m => E(k) = {}
      <3>1. \A k \in 1 .. 6 : k < m => k = 1 \/ (k \in 2 .. 4 /\ k # m)
        OBVIOUS
      <3> QED BY <1>2, <1>b, <2>7, <3>1
    <2>9. PatternEnd(at, to) = e
      BY <1>0, <2>6, <2>7, <2>8, PatternEndIs
    <2> QED BY <2>1, <2>3, <2>9 DEF e, class
  <1>3. CASE Contracted(at, to) = {} /\ class = "space"
    <2>0. ClassAt(at, to) = "space"
      BY <1>3, <1>a
    <2>1. PieceEnd(at, to) = IF end = to \/ last = at THEN end ELSE last
      BY <1>3 DEF PieceEnd
    <2>2. /\ end \in at + 1 .. to /\ AllOf("space", at, end, to)
          /\ \A f : AllOf("space", at, f, to) => f <= end
          /\ end < to => ClassAt(end, to) # "space"
      BY <1>0, <2>0, RunEndIsLongest
    <2>3. /\ last \in at .. end - 1 /\ ClassAt(last, to) = "space"
          /\ last # at => AllOf("space", at, last, to)
          /\ \A f : AllOf("space", at, f, to) /\ f # end /\ end < to => f <= last
      BY <1>0, <2>0, LastOfRunIsLongest
    <2>4. \A k \in 2 .. 4 : names[k - 1] # "space"
      OBVIOUS
    <2> HIDE DEF end, last, names
    <2>5. ASSUME NEW k \in 2 .. 4, NEW f \in E(k) PROVE FALSE
      <3>1. \/ AllOf(names[k - 1], at, f, to)
            \/ text[at] = SpaceByte /\ at + 1 < to /\ AllOf(names[k - 1], at + 1, f, to)
        BY <2>5, Alternatives DEF Ends, names
      <3>2. CASE AllOf(names[k - 1], at, f, to)
        <4>1. ClassAt(at, to) = names[k - 1]
          BY <1>0, <3>2, AllOfClass
        <4> QED BY <2>0, <2>4, <4>1
      <3>3. CASE text[at] = SpaceByte /\ at + 1 < to /\ AllOf(names[k - 1], at + 1, f, to)
        <4>1. ClassAt(from, to) = names[k - 1]
          BY <1>0, <3>3, AllOfClass
        <4> QED BY <1>3, <2>4, <4>1
      <3> QED BY <3>1, <3>2, <3>3
    <2>6. \A k \in 1 .. 6 : k < 5 => E(k) = {}
      <3>1. \A k \in 1 .. 6 : k < 5 => k = 1 \/ k \in 2 .. 4
        OBVIOUS
      <3> QED BY <1>3, <1>b, <2>5, <3>1
    <2>7. \A f : f \in E(5) <=> /\ f \in at + 1 .. to /\ AllOf("space", at, f, to)
                                /\ f < to => ClassAt(f, to) = "space"
      BY Alternatives DEF Ends
    <2>8. CASE end = to
      <3>1. end \in E(5) /\ \A f \in E(5) : f <= end
        BY <1>0, <2>2, <2>7, <2>8
      <3>2. PatternEnd(at, to) = end
        BY <1>0, <2>6, <3>1, PatternEndIs
      <3> QED BY <2>1, <2>2, <2>8, <3>2
    <2>9. CASE end # to /\ last # at
      <3>1. end < to /\ last \in at + 1 .. to
        BY <1>0, <2>2, <2>3, <2>9
      <3>2. last \in E(5)
        BY <2>3, <2>7, <2>9, <3>1
      <3>3. \A f \in E(5) : f <= last
        BY <2>2, <2>3, <2>7, <3>1
      <3>4. PatternEnd(at, to) = last
        BY <1>0, <2>6, <3>2, <3>3, PatternEndIs
      <3> QED BY <2>1, <2>9, <3>1, <3>4
    <2>10. CASE end # to /\ last = at
      <3>1. end < to
        BY <1>0, <2>2, <2>10
      <3>2. E(5) = {}
        <4> SUFFICES ASSUME NEW f \in E(5) PROVE FALSE
          OBVIOUS
        <4>1. f \in at + 1 .. to /\ f # end
          BY <2>2, <2>7, <3>1
        <4>2. f <= last
          BY <2>3, <2>7, <3>1, <4>1
        <4> QED BY <1>0, <2>10, <4>1, <4>2
      <3>3. \A f : f \in E(6) <=> f \in at + 1 .. to /\ AllOf("space", at, f, to)
        BY Alternatives DEF Ends
      <3>4. end \in E(6) /\ \A f \in E(6) : f <= end
        BY <2>2, <3>3
      <3>5. \A k \in 1 .. 6 : k < 6 => E(k) = {}
        <4>1. \A k \in 1 .. 6 : k < 6 => k < 5 \/ k = 5
          OBVIOUS
        <4> QED BY <2>6, <3>2, <4>1
      <3>6. PatternEnd(at, to) = end
        BY <1>0, <3>4, <3>5, PatternEndIs
      <3> QED BY <2>1, <2>2, <2>10, <3>6
    <2> QED BY <2>8, <2>9, <2>10
  <1> QED BY <1>1, <1>2, <1>3

-----------------------------------------------------------------------------
(* One pass of the merge loop.                                             *)

\* The pair is at a place of the symbols.
Matches(s, pair, k) == k < Len(s) /\ <<s[k], s[k + 1]>> = pair

\* What the pass makes of the symbols from each place on.
MergedFrom(f, s, pair) ==
  /\ \A k \in {Len(s) + 1, Len(s) + 2} : f[k] = <<>>
  /\ \A k \in 1 .. Len(s) :
       /\ Matches(s, pair, k) => f[k] = <<Joined(pair)>> \o f[k + 2]
       /\ ~Matches(s, pair, k) => f[k] = <<s[k]>> \o f[k + 1]

\* What a pass makes of symbols are symbols.
LEMMA MergedFromType ==
  ASSUME NEW X, NEW s \in Seq(X), NEW pair, Joined(pair) \in X, NEW f, MergedFrom(f, s, pair)
  PROVE  \A k \in 1 .. Len(s) + 2 : f[k] \in Seq(X)
  <1> DEFINE S == { k \in Int : f[k] \in Seq(X) }
  <1>0. Len(s) \in Nat
    BY LenProperties
  <1>1. ASSUME NEW k \in 1 .. Len(s) + 2, \A j \in k + 1 .. Len(s) + 2 : j \in S PROVE k \in S
    <2> SUFFICES f[k] \in Seq(X)
      BY <1>0
    <2>1. CASE k \in {Len(s) + 1, Len(s) + 2}
      <3>1. f[k] = <<>>
        BY <2>1 DEF MergedFrom
      <3> QED BY <3>1, EmptySeq
    <2>2. CASE k \in 1 .. Len(s)
      <3>1. f[k + 1] \in Seq(X) /\ f[k + 2] \in Seq(X)
        BY <1>0, <1>1, <2>2
      <3>2. CASE Matches(s, pair, k)
        <4>1. f[k] = <<Joined(pair)>> \o f[k + 2]
          BY <2>2, <3>2 DEF MergedFrom
        <4>2. <<Joined(pair)>> \in Seq(X)
          OBVIOUS
        <4> QED BY <3>1, <4>1, <4>2, ConcatProperties
      <3>3. CASE ~Matches(s, pair, k)
        <4>1. f[k] = <<s[k]>> \o f[k + 1]
          BY <2>2, <3>3 DEF MergedFrom
        <4>2. s[k] \in X
          BY <2>2, ElementOfSeq
        <4>3. <<s[k]>> \in Seq(X)
          BY <4>2
        <4> QED BY <3>1, <4>1, <4>3, ConcatProperties
      <3> QED BY <3>2, <3>3
    <2> QED BY <1>0, <2>1, <2>2
  <1>2. \A k \in 1 .. Len(s) + 2 : k \in S
    <2> HIDE DEF S
    <2>1. 1 \in Int /\ Len(s) + 2 \in Int
      BY <1>0
    <2> QED BY <1>1, <2>1, DownwardInduction
  <1> QED BY <1>2

\* MergeAll is the function its equations define.
LEMMA MergeAllDef ==
  ASSUME NEW X, NEW s \in Seq(X), NEW pair, Joined(pair) \in X
  PROVE  \E f : MergedFrom(f, s, pair) /\ MergeAll(s, pair) = f[1]
  <1> DEFINE to  == Len(s) + 2
             J   == Joined(pair)
             V   == Seq(X)
             Go  == 1 .. Len(s)
             hd  == [k \in 1 .. to |-> IF Matches(s, pair, k) THEN J ELSE s[k]]
             nxt == [k \in 1 .. to |-> IF Matches(s, pair, k) THEN k + 2 ELSE k + 1]
             F   == [kv \in (1 .. to) \X V |-> IF kv[1] \in Go THEN <<hd[kv[1]]>> \o kv[2] ELSE kv[2]]
             e   == [k \in 1 .. to |-> <<>>]
             IsFrom(f) == f = [k \in 1 .. Len(s) + 2 |->
                                 IF k > Len(s) THEN <<>>
                                 ELSE IF k < Len(s) /\ <<s[k], s[k + 1]>> = pair
                                      THEN <<J>> \o f[k + 2] ELSE <<s[k]>> \o f[k + 1]]
  <1>0. Len(s) \in Nat /\ to \in Nat
    BY LenProperties
  <1>1. LooksLater(1, to, Go, nxt)
    BY <1>0 DEF LooksLater, Matches
  <1>2. \A k \in Go : k \in 1 .. to /\ hd[k] \in X
    <2>1. \A k \in Go : s[k] \in X /\ k \in 1 .. to
      BY <1>0, ElementOfSeq
    <2> QED BY <2>1
  <1> HIDE DEF hd
  <1>3. \A k \in 1 .. to : \A v \in V : F[<<k, v>>] = IF k \in Go THEN <<hd[k]>> \o v ELSE v
    OBVIOUS
  <1>4. \A k \in 1 .. to : e[k] = <<>>
    OBVIOUS
  <1> HIDE DEF F, e
  <1>5. StaysIn(1, to, V, F, e)
    <2>1. ASSUME NEW k \in 1 .. to, NEW v \in V PROVE F[<<k, v>>] \in V
      <3>1. CASE k \in Go
        <4>1. <<hd[k]>> \in Seq(X)
          BY <1>2, <3>1
        <4>2. F[<<k, v>>] = <<hd[k]>> \o v
          BY <1>3, <3>1
        <4> QED BY <4>1, <4>2, ConcatProperties
      <3>2. CASE k \notin Go
        BY <1>3, <3>2
      <3> QED BY <3>1, <3>2
    <2>2. <<>> \in V
      BY EmptySeq
    <2> HIDE DEF V
    <2> QED BY <1>4, <2>1, <2>2 DEF StaysIn
  <1>6. PICK g : SolvesDownward(g, 1, to, V, Go, nxt, F, e)
    <2> HIDE DEF to, V, Go, nxt
    <2> QED BY <1>0, <1>1, <1>5, DownwardRecursion
  <1>7. /\ g \in [1 .. to -> V]
        /\ \A k \in 1 .. to : g[k] = IF k \in Go THEN F[<<k, g[nxt[k]]>>] ELSE e[k]
    <2> HIDE DEF V, Go, nxt
    <2> QED BY <1>6 DEF SolvesDownward
  <1>8. ASSUME NEW k \in 1 .. to
        PROVE  g[k] = IF k > Len(s) THEN <<>>
                      ELSE IF k < Len(s) /\ <<s[k], s[k + 1]>> = pair
                           THEN <<J>> \o g[k + 2] ELSE <<s[k]>> \o g[k + 1]
    <2>1. CASE k \in Go
      <3>1. nxt[k] \in 1 .. to
        BY <1>0, <1>1, <2>1 DEF LooksLater
      <3>2. g[nxt[k]] \in V
        BY <1>7, <3>1
      <3>3. g[k] = <<hd[k]>> \o g[nxt[k]]
        <4> HIDE DEF V, nxt
        <4> QED BY <1>3, <1>7, <2>1, <3>2
      <3>4. Matches(s, pair, k) <=> k < Len(s) /\ <<s[k], s[k + 1]>> = pair
        BY DEF Matches
      <3>5. CASE Matches(s, pair, k)
        <4>1. hd[k] = J /\ nxt[k] = k + 2
          BY <3>5 DEF hd
        <4>2. ~(k > Len(s))
          BY <1>0, <2>1
        <4> QED BY <3>3, <3>4, <3>5, <4>1, <4>2
      <3>6. CASE ~Matches(s, pair, k)
        <4>1. hd[k] = s[k] /\ nxt[k] = k + 1
          BY <3>6 DEF hd
        <4>2. ~(k > Len(s))
          BY <1>0, <2>1
        <4> QED BY <3>3, <3>4, <3>6, <4>1, <4>2
      <3> QED BY <3>5, <3>6
    <2>2. CASE k \notin Go
      <3>1. k > Len(s)
        BY <1>0, <2>2
      <3>2. g[k] = e[k]
        <4> HIDE DEF Go
        <4> QED BY <1>7, <2>2
      <3> QED BY <1>4, <3>1, <3>2
    <2> QED BY <2>1, <2>2
  <1>9. IsFrom(g)
    <2> HIDE DEF V, J
    <2> QED BY <1>7, <1>8
  <1>10. IsFrom(CHOOSE f : IsFrom(f))
    BY <1>9
  <1>11. MergeAll(s, pair) = (CHOOSE f : IsFrom(f))[1]
    BY DEF MergeAll
  <1>12. PICK h : IsFrom(h) /\ MergeAll(s, pair) = h[1]
    BY <1>10, <1>11
  <1>13. \A k \in 1 .. Len(s) + 2 :
           h[k] = IF k > Len(s) THEN <<>>
                  ELSE IF k < Len(s) /\ <<s[k], s[k + 1]>> = pair
                       THEN <<J>> \o h[k + 2] ELSE <<s[k]>> \o h[k + 1]
    BY <1>12
  <1> HIDE DEF IsFrom
  <1>14. ASSUME NEW k \in {Len(s) + 1, Len(s) + 2} PROVE h[k] = <<>>
    <2>1. k \in 1 .. Len(s) + 2 /\ k > Len(s)
      BY <1>0
    <2> QED BY <1>13, <2>1
  <1>15. ASSUME NEW k \in 1 .. Len(s), Matches(s, pair, k) PROVE h[k] = <<J>> \o h[k + 2]
    <2>1. k \in 1 .. Len(s) + 2 /\ ~(k > Len(s)) /\ k < Len(s) /\ <<s[k], s[k + 1]>> = pair
      BY <1>0, <1>15 DEF Matches
    <2> QED BY <1>13, <2>1
  <1>16. ASSUME NEW k \in 1 .. Len(s), ~Matches(s, pair, k) PROVE h[k] = <<s[k]>> \o h[k + 1]
    <2>1. k \in 1 .. Len(s) + 2 /\ ~(k > Len(s)) /\ ~(k < Len(s) /\ <<s[k], s[k + 1]>> = pair)
      BY <1>0, <1>16 DEF Matches
    <2> QED BY <1>13, <2>1
  <1>17. MergedFrom(h, s, pair)
    BY <1>14, <1>15, <1>16 DEF MergedFrom
  <1> QED BY <1>12, <1>17

\* The rest of a sequence is its first element and the rest after it.
LEMMA RestOf ==
  ASSUME NEW X, NEW s \in Seq(X), NEW k \in 1 .. Len(s)
  PROVE  /\ SubSeq(s, k, Len(s)) = <<s[k]>> \o SubSeq(s, k + 1, Len(s))
         /\ s[k] \in X /\ SubSeq(s, k + 1, Len(s)) \in Seq(X)
  <1>0. Len(s) \in Nat
    BY LenProperties
  <1>1. Len(s) \in k .. Len(s)
    BY <1>0
  <1>2. SubSeq(s, k, Len(s)) = <<s[k]>> \o SubSeq(s, k + 1, Len(s))
    BY <1>1, SubSeqRecursiveFirst
  <1>3. \A j \in k + 1 .. Len(s) : s[j] \in X
    BY <1>0, ElementOfSeq
  <1>4. SubSeq(s, k + 1, Len(s)) \in Seq(X)
    BY <1>0, <1>3, SubSeqProperties
  <1> QED BY <1>2, <1>4, ElementOfSeq

\* A pass keeps what the symbols spell.
LEMMA MergeAllSpells ==
  ASSUME NEW B, NEW s \in Seq(Seq(B) \ {<<>>}), NEW pair, Joined(pair) \in Seq(B) \ {<<>>}
  PROVE  /\ MergeAll(s, pair) \in Seq(Seq(B) \ {<<>>})
         /\ FlattenSeq(MergeAll(s, pair)) = FlattenSeq(s)
  <1> DEFINE X == Seq(B) \ {<<>>}
  <1>0. Len(s) \in Nat
    BY LenProperties
  <1>1. PICK f : MergedFrom(f, s, pair) /\ MergeAll(s, pair) = f[1]
    BY MergeAllDef
  <1>2. \A k \in 1 .. Len(s) + 2 : f[k] \in Seq(X)
    BY <1>1, MergedFromType
  <1>a. \A u : u \in Seq(X) => u \in Seq(Seq(B))
    BY SeqMonotonic
  <1> DEFINE rest(k) == SubSeq(s, k, Len(s))
             S == { k \in Int : FlattenSeq(f[k]) = FlattenSeq(rest(k)) }
  <1>3. ASSUME NEW k \in 1 .. Len(s) + 2, \A j \in k + 1 .. Len(s) + 2 : j \in S PROVE k \in S
    <2> SUFFICES FlattenSeq(f[k]) = FlattenSeq(rest(k))
      BY <1>0
    <2>1. CASE k \in {Len(s) + 1, Len(s) + 2}
      <3>1. f[k] = <<>>
        BY <1>1, <2>1 DEF MergedFrom
      <3>2. rest(k) = <<>>
        <4>1. Len(s) < k /\ Len(s) \in Int /\ k \in Int
          BY <1>0, <2>1
        <4> QED BY <4>1, SubSeqEmpty
      <3> QED BY <3>1, <3>2
    <2>2. CASE k \in 1 .. Len(s)
      <3>1. /\ f[k + 1] \in Seq(Seq(B)) /\ f[k + 2] \in Seq(Seq(B))
            /\ FlattenSeq(f[k + 1]) = FlattenSeq(rest(k + 1))
        <4>1. k + 1 \in 1 .. Len(s) + 2 /\ k + 2 \in 1 .. Len(s) + 2 /\ k + 1 \in k + 1 .. Len(s) + 2
          BY <1>0, <2>2
        <4>2. k + 1 \in S
          BY <1>3, <4>1
        <4> QED BY <1>2, <1>a, <4>1, <4>2
      <3>2. /\ rest(k) = <<s[k]>> \o rest(k + 1)
            /\ s[k] \in X /\ rest(k + 1) \in Seq(Seq(B))
        BY <1>a, <2>2, RestOf
      <3> HIDE DEF rest
      <3>3. FlattenSeq(rest(k)) = s[k] \o FlattenSeq(rest(k + 1))
        <4>1. s[k] \in Seq(B)
          BY <3>2
        <4> QED BY <3>2, <4>1, FlattenCons
      <3>4. CASE Matches(s, pair, k)
        <4>1. f[k] = <<Joined(pair)>> \o f[k + 2]
          BY <1>1, <2>2, <3>4 DEF MergedFrom
        <4>a. k < Len(s) /\ pair = <<s[k], s[k + 1]>>
          BY <3>4 DEF Matches
        <4>b. Joined(pair) = s[k] \o s[k + 1]
          BY <4>a DEF Joined
        <4>2. k + 1 \in 1 .. Len(s) /\ (k + 1) + 1 = k + 2 /\ k + 2 \in k + 1 .. Len(s) + 2
          BY <1>0, <2>2, <4>a
        <4>3. /\ rest(k + 1) = <<s[k + 1]>> \o rest(k + 2)
              /\ s[k + 1] \in X /\ rest(k + 2) \in Seq(Seq(B))
          <5>1. /\ rest(k + 1) = <<s[k + 1]>> \o rest((k + 1) + 1)
                /\ s[k + 1] \in X /\ rest((k + 1) + 1) \in Seq(X)
            BY <4>2, RestOf DEF rest
          <5> QED BY <1>a, <4>2, <5>1
        <4>4. FlattenSeq(f[k + 2]) = FlattenSeq(rest(k + 2))
          <5>1. k + 2 \in S
            BY <1>3, <4>2
          <5> QED BY <5>1 DEF rest
        <4>5. s[k] \in Seq(B) /\ s[k + 1] \in Seq(B) /\ Joined(pair) \in Seq(B)
          BY <3>2, <4>3
        <4>6. FlattenSeq(rest(k + 1)) = s[k + 1] \o FlattenSeq(rest(k + 2))
          BY <4>3, <4>5, FlattenCons
        <4>7. FlattenSeq(f[k]) = Joined(pair) \o FlattenSeq(f[k + 2])
          BY <3>1, <4>1, <4>5, FlattenCons
        <4>8. FlattenSeq(rest(k + 2)) \in Seq(B)
          BY <4>3, FlattenSeqType
        <4>9. (s[k] \o s[k + 1]) \o FlattenSeq(rest(k + 2)) = s[k] \o (s[k + 1] \o FlattenSeq(rest(k + 2)))
          <5>1. \A u, v, w \in Seq(B) : (u \o v) \o w = u \o (v \o w)
            BY ConcatAssoc, SMTT(30)
          <5> QED BY <4>5, <4>8, <5>1, ZenonT(30)
        <4>10. FlattenSeq(f[k]) = FlattenSeq(rest(k))
          BY <3>3, <4>b, <4>4, <4>6, <4>7, <4>9
        <4> QED BY <4>10
      <3>5. CASE ~Matches(s, pair, k)
        <4>1. f[k] = <<s[k]>> \o f[k + 1]
          BY <1>1, <2>2, <3>5 DEF MergedFrom
        <4>2. s[k] \in Seq(B)
          BY <3>2
        <4>3. FlattenSeq(f[k]) = s[k] \o FlattenSeq(f[k + 1])
          BY <3>1, <4>1, <4>2, FlattenCons
        <4> QED BY <3>1, <3>3, <4>3
      <3> QED BY <3>4, <3>5
    <2> QED BY <1>0, <2>1, <2>2
  <1>4. \A k \in 1 .. Len(s) + 2 : k \in S
    <2> HIDE DEF S
    <2>1. 1 \in Int /\ Len(s) + 2 \in Int
      BY <1>0
    <2> QED BY <1>3, <2>1, DownwardInduction
  <1>5. 1 \in 1 .. Len(s) + 2
    BY <1>0
  <1>6. FlattenSeq(f[1]) = FlattenSeq(rest(1))
    BY <1>4, <1>5
  <1>7. rest(1) = s
    BY SubSeqFull
  <1> QED BY <1>1, <1>2, <1>5, <1>6, <1>7

-----------------------------------------------------------------------------
(* A pass merges one pair after another.                                   *)

\* A nonempty set of naturals has the least element that Least returns.
LEMMA LeastProperties ==
  ASSUME NEW S \in SUBSET Nat, S # {}
  PROVE  Least(S) \in S /\ \A q \in S : Least(S) <= q
  <1>1. \E n \in S : \A m \in S : n <= m
    BY LeastElement
  <1> QED BY <1>1 DEF Least

\* The ranks of the adjacent pairs.
LEMMA RanksProperties ==
  ASSUME table \in Tables, NEW s
  PROVE  /\ Ranks(table.merges, s) \in SUBSET Nat
         /\ \A q : q \in Ranks(table.merges, s) <=>
              \E k \in 1 .. Len(s) - 1 : q \in Rank(table.merges, s[k], s[k + 1])
         /\ \A q, a, b : q \in Rank(table.merges, a, b) <=>
              q \in DOMAIN table.merges /\ table.merges[q] = <<a, b>>
  <1>1. DOMAIN table.merges = 1 .. Len(table.merges)
    BY TokenizerAssumption
  <1>2. 1 .. Len(table.merges) \subseteq Nat
    OBVIOUS
  <1> QED BY <1>1, <1>2 DEF Ranks, Rank

\* A merge that works on what another one makes comes after it.
LEMMA JoinedIsLater ==
  ASSUME table \in Tables, NEW r \in DOMAIN table.merges,
         Len(Joined(table.merges[r])) # 1,
         NEW q \in DOMAIN table.merges, NEW a, NEW b, table.merges[q] = <<a, b>>,
         a = Joined(table.merges[r]) \/ b = Joined(table.merges[r])
  PROVE  r < q
  <1> DEFINE J == Joined(table.merges[r])
             M == table.merges
  <1>1. DOMAIN M = 1 .. Len(M) /\ WellRanked(M)
    BY TokenizerAssumption
  <1>2. PICK h \in {1, 2} : M[q][h] = J
    <2>1. M[q][1] = a /\ M[q][2] = b
      OBVIOUS
    <2> QED BY <2>1
  <1> HIDE DEF J, M
  <1>3. Len(J) # 1
    BY DEF J
  <1>4. q \in DOMAIN M /\ r \in DOMAIN M /\ J = Joined(M[r])
    BY DEF M, J
  <1>5. \E j \in 1 .. q - 1 : Joined(M[j]) = M[q][h]
    BY <1>1, <1>2, <1>3, <1>4 DEF WellRanked
  <1>6. PICK j \in 1 .. q - 1 : Joined(M[j]) = Joined(M[r])
    BY <1>2, <1>4, <1>5
  <1>7. j \in DOMAIN M /\ q \in Int
    BY <1>1, <1>4
  <1>8. j = r
    BY <1>1, <1>4, <1>6, <1>7 DEF WellRanked
  <1> QED BY <1>7, <1>8

\* y is x with its symbols n + 1 and n + 2 made into J.
MergedAt(y, x, n, J, X) ==
  /\ y \in Seq(X) /\ Len(y) = Len(x) - 1
  /\ \A j \in 1 .. n : y[j] = x[j]
  /\ y[n + 1] = J
  /\ \A j \in n + 2 .. Len(x) - 1 : y[j] = x[j + 1]

\* What merging the leftmost pair of the lowest rank makes, when that pair is
\* at n + 1 and n + 2.
LEMMA MergeFirstShape ==
  ASSUME NEW X, NEW x \in Seq(X), NEW r, NEW n \in 0 .. Len(x) - 2,
         Ranks(table.merges, x) # {}, Least(Ranks(table.merges, x)) = r,
         Joined(table.merges[r]) \in X,
         <<x[n + 1], x[n + 2]>> = table.merges[r],
         \A j \in 1 .. n : <<x[j], x[j + 1]>> # table.merges[r]
  PROVE  MergedAt(MergeFirst(x), x, n, Joined(table.merges[r]), X)
  <1> DEFINE pair == table.merges[r]
             J == Joined(pair)
             At == { k \in 1 .. Len(x) - 1 : <<x[k], x[k + 1]>> = pair }
             u == SubSeq(x, 1, n)
             v == SubSeq(x, n + 3, Len(x))
  <1>0. Len(x) \in Nat /\ n \in Nat /\ n + 2 <= Len(x)
    BY LenProperties
  <1>1. Least(At) = n + 1
    <2>1. n + 1 \in At
      <3>1. n + 1 \in 1 .. Len(x) - 1 /\ (n + 1) + 1 = n + 2
        BY <1>0
      <3> QED BY <3>1
    <2>2. ASSUME NEW q \in At PROVE n + 1 <= q
      <3>1. q \in 1 .. Len(x) - 1 /\ ~(q \in 1 .. n)
        OBVIOUS
      <3> QED BY <1>0, <3>1
    <2>3. At \in SUBSET Int
      OBVIOUS
    <2> HIDE DEF At
    <2> QED BY <2>1, <2>2, <2>3, LeastIs
  <1>2. MergeFirst(x) = SubSeq(x, 1, (n + 1) - 1) \o <<J>> \o SubSeq(x, (n + 1) + 2, Len(x))
    <2>1. MergeFirst(x) = SubSeq(x, 1, Least(At) - 1) \o <<J>> \o SubSeq(x, Least(At) + 2, Len(x))
      BY DEF MergeFirst
    <2> QED BY <1>1, <2>1
  <1>3. (n + 1) - 1 = n /\ (n + 1) + 2 = n + 3
    BY <1>0
  <1>4. MergeFirst(x) = (u \o <<J>>) \o v
    BY <1>2, <1>3
  <1>5. u \in Seq(X) /\ Len(u) = n /\ \A j \in 1 .. n : u[j] = x[j]
    <2>1. n \in 0 .. Len(x)
      BY <1>0
    <2> QED BY <2>1, PrefixProperties
  <1>6. v \in Seq(X) /\ Len(v) = Len(x) - n - 2 /\ \A j \in 1 .. Len(x) - n - 2 : v[j] = x[n + 2 + j]
    <2>1. \A j \in n + 3 .. Len(x) : x[j] \in X
      BY <1>0, ElementOfSeq
    <2>2. /\ v \in Seq(X) /\ Len(v) = IF n + 3 <= Len(x) THEN Len(x) - (n + 3) + 1 ELSE 0
          /\ \A j \in 1 .. Len(x) - (n + 3) + 1 : v[j] = x[(n + 3) + j - 1]
      <3> DEFINE m == n + 3
                 l == Len(x)
      <3>1. m \in Int /\ l \in Int /\ \A j \in m .. l : x[j] \in X
        BY <1>0, <2>1
      <3> HIDE DEF m, l
      <3>2. /\ SubSeq(x, m, l) \in Seq(X) /\ Len(SubSeq(x, m, l)) = IF m <= l THEN l - m + 1 ELSE 0
            /\ \A j \in 1 .. l - m + 1 : SubSeq(x, m, l)[j] = x[m + j - 1]
        BY <3>1, SubSeqProperties
      <3> QED BY <3>2 DEF m, l
    <2>3. \A j \in 1 .. Len(x) - n - 2 : (n + 3) + j - 1 = n + 2 + j
      BY <1>0
    <2>4. Len(x) - (n + 3) + 1 = Len(x) - n - 2
      BY <1>0
    <2>5. (IF n + 3 <= Len(x) THEN Len(x) - (n + 3) + 1 ELSE 0) = Len(x) - n - 2
      BY <1>0
    <2> HIDE DEF v
    <2> QED BY <2>2, <2>3, <2>4, <2>5
  <1>7. <<J>> \in Seq(X) /\ Len(<<J>>) = 1 /\ <<J>>[1] = J
    OBVIOUS
  <1> HIDE DEF u, v, J
  <1> DEFINE w == u \o <<J>>
  <1>8. w \in Seq(X) /\ Len(w) = n + 1 /\ w[n + 1] = J /\ \A j \in 1 .. n : w[j] = x[j]
    <2>1. /\ w \in Seq(X) /\ Len(w) = n + 1
          /\ \A j \in 1 .. n + 1 : w[j] = IF j <= n THEN u[j] ELSE <<J>>[j - n]
      BY <1>5, <1>7, ConcatProperties
    <2>2. w[n + 1] = J
      <3>1. n + 1 \in 1 .. n + 1 /\ ~(n + 1 <= n) /\ (n + 1) - n = 1
        BY <1>0
      <3> QED BY <1>7, <2>1, <3>1
    <2>3. ASSUME NEW j \in 1 .. n PROVE w[j] = x[j]
      <3>1. j \in 1 .. n + 1 /\ j <= n
        BY <1>0
      <3> QED BY <1>5, <2>1, <3>1
    <2> HIDE DEF w
    <2> QED BY <2>1, <2>2, <2>3
  <1> HIDE DEF w
  <1> DEFINE y == w \o v
  <1>9. /\ y \in Seq(X) /\ Len(y) = Len(w) + Len(v)
        /\ \A j \in 1 .. Len(w) + Len(v) : y[j] = IF j <= Len(w) THEN w[j] ELSE v[j - Len(w)]
    BY <1>6, <1>8, ConcatProperties, ZenonT(30)
  <1> HIDE DEF y
  <1>10. Len(w) + Len(v) = Len(x) - 1
    BY <1>0, <1>6, <1>8
  <1>11. \A j \in 1 .. n : y[j] = x[j]
    BY <1>0, <1>8, <1>9, <1>10
  <1>12. y[n + 1] = J
    BY <1>0, <1>8, <1>9, <1>10
  <1>13. ASSUME NEW j \in n + 2 .. Len(x) - 1 PROVE y[j] = x[j + 1]
    <2>1. j \in 1 .. Len(x) - 1 /\ ~(j <= n + 1)
      BY <1>0
    <2>2. y[j] = v[j - (n + 1)]
      BY <1>8, <1>9, <1>10, <2>1
    <2>3. j - (n + 1) \in 1 .. Len(x) - n - 2 /\ n + 2 + (j - (n + 1)) = j + 1
      BY <1>0
    <2> QED BY <1>6, <2>2, <2>3
  <1>14. MergeFirst(x) = y
    BY <1>4 DEF w, y
  <1> QED BY <1>9, <1>10, <1>11, <1>12, <1>13, <1>14 DEF J, MergedAt

\* Of the adjacent pairs of x none has a rank below r, and none of the first n is
\* the pair that is merged.
Clean(x, n, r) ==
  /\ \A j \in 1 .. Len(x) - 1 : \A q \in Rank(table.merges, x[j], x[j + 1]) : r <= q
  /\ \A j \in 1 .. n : j < Len(x) => <<x[j], x[j + 1]>> # table.merges[r]

\* The sequences of symbols that merging the first pair leads to, and on from.
ClosedUnderFirst(Chain, X) ==
  \A x \in Chain : x \in Seq(X)
                  /\ (Ranks(table.merges, x) # {} => MergeFirst(x) \in Chain)

\* The least rank of a clean sequence that has the pair.
LEMMA CleanLeast ==
  ASSUME table \in Tables, NEW X, NEW x \in Seq(X), NEW r \in DOMAIN table.merges, NEW n,
         Clean(x, n, r), NEW k \in 1 .. Len(x) - 1, <<x[k], x[k + 1]>> = table.merges[r]
  PROVE  Ranks(table.merges, x) # {} /\ Least(Ranks(table.merges, x)) = r
  <1> DEFINE R == Ranks(table.merges, x)
  <1>1. r \in R
    BY RanksProperties
  <1>2. \A q \in R : r <= q
    BY RanksProperties DEF Clean
  <1>3. R \in SUBSET Int
    BY RanksProperties
  <1> HIDE DEF R
  <1>4. Least(R) = r
    BY <1>1, <1>2, <1>3, LeastIs
  <1> QED BY <1>1, <1>4 DEF R

\* Merging the first pair of a clean sequence leaves a clean one, one place on.
LEMMA MergeFirstCleans ==
  ASSUME table \in Tables, NEW B, NEW x \in Seq(Seq(B) \ {<<>>}),
         NEW r \in DOMAIN table.merges, NEW n \in 0 .. Len(x) - 2, Clean(x, n, r),
         <<x[n + 1], x[n + 2]>> = table.merges[r]
  PROVE  LET y == MergeFirst(x)
             J == Joined(table.merges[r])
         IN  /\ J \in Seq(B) \ {<<>>}
             /\ MergedAt(y, x, n, J, Seq(B) \ {<<>>})
             /\ Ranks(table.merges, x) # {} /\ Clean(y, n + 1, r)
  <1> DEFINE X == Seq(B) \ {<<>>}
             y == MergeFirst(x)
             J == Joined(table.merges[r])
             a == x[n + 1]
             b == x[n + 2]
  <1>0. Len(x) \in Nat /\ n \in Nat /\ n + 2 <= Len(x) /\ n + 1 \in 1 .. Len(x) - 1
        /\ (n + 1) + 1 = n + 2 /\ n + 1 \in 1 .. Len(x) /\ n + 2 \in 1 .. Len(x)
    BY LenProperties
  <1>1. a \in Seq(B) /\ a # <<>> /\ b \in Seq(B) /\ b # <<>>
    BY <1>0, ElementOfSeq
  <1>a. table.merges[r] = <<a, b>>
    OBVIOUS
  <1> HIDE DEF a, b
  <1>2. J = a \o b
    BY <1>a DEF Joined
  <1> HIDE DEF J
  <1>3. J \in Seq(B) /\ Len(J) = Len(a) + Len(b)
    BY <1>1, <1>2, ConcatProperties
  <1>4. Len(a) \in Nat \ {0} /\ Len(b) \in Nat \ {0}
    BY <1>1, EmptySeq
  <1>5. J \in X /\ Len(J) # 1
    <2>1. Len(J) # 0 /\ Len(J) # 1
      BY <1>3, <1>4, SMTT(30)
    <2>2. J # <<>>
      BY <2>1, EmptySeq
    <2> QED BY <1>3, <2>1, <2>2
  <1>6. Ranks(table.merges, x) # {} /\ Least(Ranks(table.merges, x)) = r
    BY <1>0, CleanLeast
  <1>7. \A j \in 1 .. n : <<x[j], x[j + 1]>> # table.merges[r]
    <2>1. \A j \in 1 .. n : j < Len(x)
      BY <1>0
    <2> QED BY <2>1 DEF Clean
  <1>b. MergedAt(y, x, n, J, X)
    <2>1. Joined(table.merges[r]) \in X /\ <<x[n + 1], x[n + 2]>> = table.merges[r]
      BY <1>5 DEF J
    <2>2. x \in Seq(X)
      OBVIOUS
    <2> HIDE DEF X
    <2>3. MergedAt(MergeFirst(x), x, n, Joined(table.merges[r]), X)
      BY <1>6, <1>7, <2>1, <2>2, MergeFirstShape
    <2> QED BY <2>3 DEF J
  <1>8. /\ y \in Seq(X) /\ Len(y) = Len(x) - 1
        /\ \A j \in 1 .. n : y[j] = x[j]
        /\ y[n + 1] = J
        /\ \A j \in n + 2 .. Len(x) - 1 : y[j] = x[j + 1]
    BY <1>b DEF MergedAt
  <1>9. \A q, c, d : (c = J \/ d = J) /\ q \in Rank(table.merges, c, d) => r < q
    BY <1>5, RanksProperties, JoinedIsLater DEF J
  <1>10. r \in Nat
    BY TokenizerAssumption, SMTT(30)
  <1>11. \A q, c, d : q \in Rank(table.merges, c, d) => q \in Nat
    BY TokenizerAssumption, SMTT(30) DEF Rank
  <1> HIDE DEF y
  <1>12. ASSUME NEW j \in 1 .. Len(y) - 1, NEW q \in Rank(table.merges, y[j], y[j + 1])
         PROVE  r <= q
    <2>1. CASE j < n
      <3>1. /\ j \in 1 .. n /\ j + 1 \in 1 .. n /\ j \in 1 .. Len(x) - 1
        BY <1>0, <1>8, <2>1
      <3>2. y[j] = x[j] /\ y[j + 1] = x[j + 1]
        BY <1>8, <3>1
      <3> QED BY <1>12, <3>1, <3>2 DEF Clean
    <2>2. CASE j = n \/ j = n + 1
      <3>1. y[j] = J \/ y[j + 1] = J
        BY <1>8, <2>2
      <3>2. r < q
        BY <1>9, <3>1
      <3> QED BY <1>10, <1>11, <3>2
    <2>3. CASE j > n + 1
      <3>1. /\ j \in n + 2 .. Len(x) - 1 /\ j + 1 \in n + 2 .. Len(x) - 1
            /\ j + 1 \in 1 .. Len(x) - 1
        BY <1>0, <1>8, <2>3
      <3>2. y[j] = x[j + 1] /\ y[j + 1] = x[(j + 1) + 1]
        BY <1>8, <3>1
      <3> QED BY <1>12, <3>1, <3>2 DEF Clean
    <2>4. j < n \/ (j = n \/ j = n + 1) \/ j > n + 1
      BY <1>0, <1>8
    <2> QED BY <2>1, <2>2, <2>3, <2>4
  <1>13. ASSUME NEW j \in 1 .. n + 1, j < Len(y) PROVE <<y[j], y[j + 1]>> # table.merges[r]
    <2>1. CASE j < n
      <3>1. /\ j \in 1 .. n /\ j + 1 \in 1 .. n
        BY <1>0, <2>1
      <3>2. y[j] = x[j] /\ y[j + 1] = x[j + 1]
        BY <1>8, <3>1
      <3> QED BY <1>7, <3>1, <3>2
    <2>2. CASE ~(j < n)
      <3>1. y[j] = J \/ y[j + 1] = J
        <4>1. j = n \/ j = n + 1
          BY <1>0, <2>2
        <4> QED BY <1>8, <4>1
      <3> SUFFICES ASSUME <<y[j], y[j + 1]>> = table.merges[r] PROVE FALSE
        OBVIOUS
      <3>2. r \in Rank(table.merges, y[j], y[j + 1])
        BY DEF Rank
      <3>3. r < r
        BY <1>9, <3>1, <3>2
      <3> QED BY <1>10, <3>3
    <2> QED BY <2>1, <2>2
  <1>14. Clean(y, n + 1, r)
    BY <1>12, <1>13 DEF Clean
  <1> QED BY <1>5, <1>6, <1>b, <1>14 DEF y, J

\* The symbol two symbols make.
LEMMA JoinedOf ==
  ASSUME NEW a, NEW b
  PROVE  Joined(<<a, b>>) = a \o b
  BY DEF Joined

\* The pair of the lowest rank is a pair of the symbols.
LEMMA LeastPair ==
  ASSUME table \in Tables, NEW B, NEW s \in Seq(Seq(B) \ {<<>>}), Ranks(table.merges, s) # {}
  PROVE  LET r == Least(Ranks(table.merges, s)) IN
         /\ r \in DOMAIN table.merges /\ Clean(s, 0, r)
         /\ Joined(table.merges[r]) \in Seq(B) \ {<<>>}
  <1> DEFINE R == Ranks(table.merges, s)
             r == Least(R)
  <1>1. r \in R /\ \A q \in R : r <= q
    BY RanksProperties, LeastProperties
  <1> HIDE DEF r
  <1>2. PICK k \in 1 .. Len(s) - 1 : r \in Rank(table.merges, s[k], s[k + 1])
    BY <1>1, RanksProperties
  <1>3. r \in DOMAIN table.merges /\ table.merges[r] = <<s[k], s[k + 1]>>
    BY <1>2, RanksProperties
  <1>4. Len(s) \in Nat /\ k \in 1 .. Len(s) /\ k + 1 \in 1 .. Len(s)
    BY LenProperties
  <1>5. s[k] \in Seq(B) /\ s[k] # <<>> /\ s[k + 1] \in Seq(B)
    BY <1>4, ElementOfSeq
  <1>6. Joined(table.merges[r]) = s[k] \o s[k + 1]
    BY <1>3, JoinedOf
  <1>7. Joined(table.merges[r]) \in Seq(B) \ {<<>>}
    <2>1. s[k] \o s[k + 1] \in Seq(B)
      BY <1>5, ConcatProperties
    <2>2. s[k] \o s[k + 1] # <<>>
      BY <1>5, ConcatEqualIffEmpty
    <2> QED BY <1>6, <2>1, <2>2
  <1>8. Clean(s, 0, r)
    <2>1. \A j \in 1 .. Len(s) - 1 : \A q \in Rank(table.merges, s[j], s[j + 1]) : r <= q
      BY <1>1, RanksProperties
    <2> QED BY <2>1 DEF Clean
  <1> QED BY <1>3, <1>7, <1>8 DEF r

\* From n + 1 on, x is s from k on.
Aligned(x, n, s, k) ==
  /\ Len(x) - n = Len(s) - k + 1
  /\ \A j \in 1 .. Len(x) - n : x[n + j] = s[k - 1 + j]

\* One place further without a merge, and with one.
LEMMA AlignedNext ==
  ASSUME NEW X, NEW x \in Seq(X), NEW s \in Seq(X), NEW n \in 0 .. Len(x),
         NEW k \in 1 .. Len(s), Aligned(x, n, s, k)
  PROVE  /\ n + 1 \in 0 .. Len(x) /\ n + 1 \in 1 .. Len(x) /\ Aligned(x, n + 1, s, k + 1)
         /\ x[n + 1] = s[k]
         /\ k < Len(s) <=> n + 2 <= Len(x)
         /\ k < Len(s) => x[n + 2] = s[k + 1]
  <1>0. Len(x) \in Nat /\ Len(s) \in Nat /\ Len(x) - n = Len(s) - k + 1
    BY LenProperties DEF Aligned
  <1>1. \A j \in 1 .. Len(x) - n : x[n + j] = s[k - 1 + j]
    BY DEF Aligned
  <1>2. x[n + 1] = s[k]
    <2>1. 1 \in 1 .. Len(x) - n /\ k - 1 + 1 = k
      BY <1>0
    <2>2. x[n + 1] = s[k - 1 + 1]
      BY <1>1, <2>1
    <2> QED BY <2>1, <2>2
  <1>3. k < Len(s) => x[n + 2] = s[k + 1]
    <2> SUFFICES ASSUME k < Len(s) PROVE x[n + 2] = s[k + 1]
      OBVIOUS
    <2>1. 2 \in 1 .. Len(x) - n /\ k - 1 + 2 = k + 1
      BY <1>0
    <2>2. x[n + 2] = s[k - 1 + 2]
      BY <1>1, <2>1
    <2> QED BY <2>1, <2>2
  <1>4. ASSUME NEW j \in 1 .. Len(x) - (n + 1) PROVE x[(n + 1) + j] = s[(k + 1) - 1 + j]
    <2>1. j + 1 \in 1 .. Len(x) - n /\ n + (j + 1) = (n + 1) + j /\ k - 1 + (j + 1) = (k + 1) - 1 + j
      BY <1>0
    <2>2. x[n + (j + 1)] = s[k - 1 + (j + 1)]
      BY <1>1, <2>1
    <2> QED BY <2>1, <2>2
  <1>5. Aligned(x, n + 1, s, k + 1)
    <2>1. Len(x) - (n + 1) = Len(s) - (k + 1) + 1
      BY <1>0
    <2> QED BY <1>4, <2>1 DEF Aligned
  <1> QED BY <1>0, <1>2, <1>3, <1>5

\* And one pair further, when the pair is merged.
LEMMA AlignedMerged ==
  ASSUME NEW X, NEW x \in Seq(X), NEW s \in Seq(X), NEW y, NEW J, NEW n \in 0 .. Len(x),
         NEW k \in 1 .. Len(s), k < Len(s), Aligned(x, n, s, k), MergedAt(y, x, n, J, X)
  PROVE  n + 1 \in 0 .. Len(y) /\ n + 1 \in 1 .. Len(y) /\ Aligned(y, n + 1, s, k + 2)
  <1>0. Len(x) \in Nat /\ Len(s) \in Nat /\ Len(x) - n = Len(s) - k + 1 /\ Len(y) = Len(x) - 1
    BY LenProperties DEF Aligned, MergedAt
  <1>1. \A j \in 1 .. Len(x) - n : x[n + j] = s[k - 1 + j]
    BY DEF Aligned
  <1>2. \A j \in n + 2 .. Len(x) - 1 : y[j] = x[j + 1]
    BY DEF MergedAt
  <1>3. ASSUME NEW j \in 1 .. Len(y) - (n + 1) PROVE y[(n + 1) + j] = s[(k + 2) - 1 + j]
    <2>1. /\ j + 2 \in 1 .. Len(x) - n /\ n + (j + 2) = ((n + 1) + j) + 1
          /\ k - 1 + (j + 2) = (k + 2) - 1 + j /\ (n + 1) + j \in n + 2 .. Len(x) - 1
      BY <1>0
    <2>2. x[n + (j + 2)] = s[k - 1 + (j + 2)]
      BY <1>1, <2>1
    <2>3. y[(n + 1) + j] = x[((n + 1) + j) + 1]
      BY <1>2, <2>1
    <2> QED BY <2>1, <2>2, <2>3
  <1>4. Len(y) - (n + 1) = Len(s) - (k + 2) + 1 /\ n + 1 \in 0 .. Len(y) /\ n + 1 \in 1 .. Len(y)
    BY <1>0
  <1> QED BY <1>3, <1>4 DEF Aligned

\* A pass leads where merging one pair after another does.
LEMMA PassIsFirsts ==
  ASSUME table \in Tables, NEW B, NEW Chain, ClosedUnderFirst(Chain, Seq(B) \ {<<>>}),
         NEW s \in Chain, Ranks(table.merges, s) # {}
  PROVE  MergeAll(s, table.merges[Least(Ranks(table.merges, s))]) \in Chain
  <1> DEFINE X == Seq(B) \ {<<>>}
             r == Least(Ranks(table.merges, s))
             pair == table.merges[r]
             J == Joined(pair)
  <1>0. s \in Seq(X) /\ Len(s) \in Nat
    BY LenProperties DEF ClosedUnderFirst
  <1>1. r \in DOMAIN table.merges /\ Clean(s, 0, r) /\ J \in X
    BY <1>0, LeastPair
  <1> HIDE DEF r
  <1>2. PICK f : MergedFrom(f, s, pair) /\ MergeAll(s, pair) = f[1]
    <2> HIDE DEF X
    <2> QED BY <1>0, <1>1, MergeAllDef
  <1>3. \A k \in 1 .. Len(s) + 2 : f[k] \in Seq(X)
    <2> HIDE DEF X
    <2> QED BY <1>0, <1>1, <1>2, MergedFromType
  <1> DEFINE Leads(k) == \A x \in Chain : \A n \in 0 .. Len(x) :
                           Aligned(x, n, s, k) /\ Clean(x, n, r) => SubSeq(x, 1, n) \o f[k] \in Chain
             S == { k \in Int : Leads(k) }
  <1>4. ASSUME NEW k \in 1 .. Len(s) + 2, \A j \in k + 1 .. Len(s) + 2 : j \in S PROVE k \in S
    <2> SUFFICES ASSUME NEW x \in Chain, NEW n \in 0 .. Len(x), Aligned(x, n, s, k), Clean(x, n, r)
                 PROVE  SubSeq(x, 1, n) \o f[k] \in Chain
      BY <1>0
    <2>0. x \in Seq(X) /\ Len(x) \in Nat
      BY LenProperties DEF ClosedUnderFirst
    <2>1. CASE k \in {Len(s) + 1, Len(s) + 2}
      <3>1. f[k] = <<>>
        BY <1>2, <2>1 DEF MergedFrom
      <3>2. Len(x) - n = Len(s) - k + 1
        BY DEF Aligned
      <3>3. n = Len(x)
        BY <1>0, <2>0, <2>1, <3>2
      <3>4. SubSeq(x, 1, n) = x
        BY <2>0, <3>3, SubSeqFull
      <3> QED BY <2>0, <3>1, <3>4, ConcatEmptySeq
    <2>2. CASE k \in 1 .. Len(s)
      <3>1. /\ n + 1 \in 0 .. Len(x) /\ n + 1 \in 1 .. Len(x) /\ Aligned(x, n + 1, s, k + 1)
            /\ x[n + 1] = s[k]
            /\ k < Len(s) <=> n + 2 <= Len(x)
            /\ k < Len(s) => x[n + 2] = s[k + 1]
        <4> HIDE DEF X
        <4> QED BY <1>0, <2>0, <2>2, AlignedNext
      <3>2. SubSeq(x, 1, n) \in Seq(X) /\ Len(SubSeq(x, 1, n)) = n
            /\ \A j \in 1 .. n : SubSeq(x, 1, n)[j] = x[j]
        <4> HIDE DEF X
        <4> QED BY <2>0, PrefixProperties
      <3>3. k + 1 \in k + 1 .. Len(s) + 2 /\ k + 1 \in 1 .. Len(s) + 2
            /\ k + 2 \in k + 1 .. Len(s) + 2 /\ k + 2 \in 1 .. Len(s) + 2 /\ (n + 1) - 1 = n
        BY <1>0, <2>2
      <3>4. CASE Matches(s, pair, k)
        <4> DEFINE y == MergeFirst(x)
        <4>1. k < Len(s) /\ <<x[n + 1], x[n + 2]>> = pair /\ n \in 0 .. Len(x) - 2
          BY <2>0, <3>1, <3>4 DEF Matches
        <4>2. MergedAt(y, x, n, J, X) /\ Ranks(table.merges, x) # {} /\ Clean(y, n + 1, r)
          BY <1>1, <2>0, <4>1, MergeFirstCleans
        <4>3. y \in Chain
          BY <4>2 DEF ClosedUnderFirst
        <4> HIDE DEF y, J
        <4>4. n + 1 \in 0 .. Len(y) /\ n + 1 \in 1 .. Len(y) /\ Aligned(y, n + 1, s, k + 2)
          <5> HIDE DEF X
          <5> QED BY <1>0, <2>0, <2>2, <4>1, <4>2, AlignedMerged
        <4>5. SubSeq(y, 1, n + 1) \o f[k + 2] \in Chain
          BY <1>4, <3>3, <4>2, <4>3, <4>4
        <4>6. SubSeq(y, 1, n + 1) = SubSeq(x, 1, n) \o <<J>>
          <5>1. y \in Seq(X) /\ y[n + 1] = J /\ \A j \in 1 .. n : y[j] = x[j]
            BY <4>2 DEF MergedAt
          <5>2. n + 1 \in n + 1 .. n + 1 /\ n + 1 \in 1 .. n + 1 /\ 1 \in 1 .. Len(y)
                /\ n + 1 \in 1 .. Len(y) /\ Len(y) \in Nat /\ n \in 0 .. Len(y)
            BY <4>4, <5>1, LenProperties
          <5>3. SubSeq(y, 1, n + 1) = SubSeq(y, 1, (n + 1) - 1) \o <<y[n + 1]>>
            <6> HIDE DEF X
            <6> QED BY <5>1, <5>2, SubSeqRecursiveSecond
          <5>4. SubSeq(y, 1, n) \in Seq(X) /\ Len(SubSeq(y, 1, n)) = n
                /\ \A j \in 1 .. n : SubSeq(y, 1, n)[j] = y[j]
            <6> HIDE DEF X
            <6> QED BY <5>1, <5>2, PrefixProperties
          <5>5. SubSeq(y, 1, n) = SubSeq(x, 1, n)
            <6> HIDE DEF X
            <6> QED BY <3>2, <5>1, <5>4, SeqEqual
          <5> QED BY <3>3, <5>1, <5>3, <5>5
        <4>7. f[k] = <<J>> \o f[k + 2]
          BY <1>2, <2>2, <3>4 DEF MergedFrom, J
        <4>8. (SubSeq(x, 1, n) \o <<J>>) \o f[k + 2] = SubSeq(x, 1, n) \o (<<J>> \o f[k + 2])
          <5>1. <<J>> \in Seq(X) /\ f[k + 2] \in Seq(X)
            BY <1>1, <1>3, <3>3 DEF J
          <5>2. \A u, v, w \in Seq(X) : (u \o v) \o w = u \o (v \o w)
            <6> HIDE DEF X
            <6> QED BY ConcatAssoc, SMTT(30)
          <5> HIDE DEF X
          <5> QED BY <3>2, <5>1, <5>2
        <4> QED BY <4>5, <4>6, <4>7, <4>8
      <3>5. CASE ~Matches(s, pair, k)
        <4>1. Clean(x, n + 1, r)
          <5>1. ASSUME NEW j \in 1 .. n + 1, j < Len(x) PROVE <<x[j], x[j + 1]>> # pair
            <6>1. CASE j \in 1 .. n
              BY <5>1, <6>1 DEF Clean
            <6>2. CASE j = n + 1
              <7>1. n + 2 <= Len(x) /\ j + 1 = n + 2
                BY <2>0, <5>1, <6>2
              <7>2. k < Len(s) /\ x[j] = s[k] /\ x[j + 1] = s[k + 1]
                BY <3>1, <6>2, <7>1
              <7> QED BY <3>5, <7>2 DEF Matches
            <6> QED BY <6>1, <6>2
          <5> QED BY <5>1 DEF Clean
        <4>2. SubSeq(x, 1, n + 1) \o f[k + 1] \in Chain
          BY <1>4, <3>1, <3>3, <4>1
        <4>3. SubSeq(x, 1, n + 1) = SubSeq(x, 1, n) \o <<s[k]>>
          <5>1. 1 \in 1 .. Len(x) /\ n + 1 \in 1 .. Len(x)
            BY <2>0, <3>1
          <5>2. SubSeq(x, 1, n + 1) = SubSeq(x, 1, (n + 1) - 1) \o <<x[n + 1]>>
            <6> HIDE DEF X
            <6> QED BY <2>0, <5>1, SubSeqRecursiveSecond
          <5> QED BY <3>1, <3>3, <5>2
        <4>4. f[k] = <<s[k]>> \o f[k + 1]
          BY <1>2, <2>2, <3>5 DEF MergedFrom
        <4>5. (SubSeq(x, 1, n) \o <<s[k]>>) \o f[k + 1] = SubSeq(x, 1, n) \o (<<s[k]>> \o f[k + 1])
          <5> HIDE DEF X
          <5>0. s[k] \in X
            BY <1>0, <2>2, ElementOfSeq
          <5>1. <<s[k]>> \in Seq(X) /\ f[k + 1] \in Seq(X)
            BY <1>3, <3>3, <5>0
          <5>2. \A u, v, w \in Seq(X) : (u \o v) \o w = u \o (v \o w)
            <6> HIDE DEF X
            <6> QED BY ConcatAssoc, SMTT(30)
          <5> QED BY <3>2, <5>1, <5>2
        <4> QED BY <4>2, <4>3, <4>4, <4>5
      <3> QED BY <3>4, <3>5
    <2> QED BY <1>0, <2>1, <2>2
  <1>5. \A k \in 1 .. Len(s) + 2 : k \in S
    <2> HIDE DEF S
    <2>1. 1 \in Int /\ Len(s) + 2 \in Int
      BY <1>0
    <2> QED BY <1>4, <2>1, DownwardInduction
  <1>6. Aligned(s, 0, s, 1)
    BY <1>0 DEF Aligned
  <1>7. SubSeq(s, 1, 0) \o f[1] \in Chain
    BY <1>0, <1>1, <1>5, <1>6
  <1>8. SubSeq(s, 1, 0) = <<>> /\ f[1] \in Seq(X)
    BY <1>0, <1>3, SubSeqEmpty
  <1>9. SubSeq(s, 1, 0) \o f[1] = f[1]
    BY <1>8, ConcatEmptySeq
  <1> QED BY <1>2, <1>7, <1>9 DEF r

-----------------------------------------------------------------------------
(* Merging one pair at a time, to the end.                                 *)

\* Merging the first pair, n times.
IsFirsts(g, s, n) ==
  /\ g[0] = s
  /\ \A k \in 1 .. n : g[k] = MergeFirst(g[k - 1])

\* That function exists.
LEMMA FirstsExist ==
  ASSUME NEW s, NEW n \in Nat
  PROVE  \E g : g = [k \in 0 .. n |-> IF k = 0 THEN s ELSE MergeFirst(g[k - 1])]
  <1> DEFINE Is(g, m) == g = [k \in 0 .. m |-> IF k = 0 THEN s ELSE MergeFirst(g[k - 1])]
             S == { m \in Nat : \E g : Is(g, m) }
  <1>1. 0 \in S
    <2>1. Is([k \in 0 .. 0 |-> s], 0)
      OBVIOUS
    <2> HIDE DEF Is
    <2> QED BY <2>1
  <1>2. ASSUME NEW m \in Nat, m \in S PROVE m + 1 \in S
    <2>1. PICK g : Is(g, m)
      <3> HIDE DEF Is
      <3> QED BY <1>2
    <2> DEFINE h == [k \in 0 .. m + 1 |-> IF k = m + 1 THEN MergeFirst(g[m]) ELSE g[k]]
    <2>2. \A k \in 0 .. m : g[k] = IF k = 0 THEN s ELSE MergeFirst(g[k - 1])
      BY <2>1
    <2>3. ASSUME NEW k \in 0 .. m + 1
          PROVE  h[k] = IF k = 0 THEN s ELSE MergeFirst(h[k - 1])
      <3>1. CASE k = m + 1
        <4>1. k # 0 /\ k - 1 = m /\ m \in 0 .. m + 1 /\ m # m + 1
          BY <3>1
        <4>2. h[k] = MergeFirst(g[m]) /\ h[k - 1] = g[m]
          BY <3>1, <4>1
        <4> HIDE DEF h
        <4> QED BY <4>1, <4>2
      <3>2. CASE k # m + 1 /\ k # 0
        <4>1. k \in 0 .. m /\ k - 1 \in 0 .. m + 1 /\ k - 1 # m + 1
          BY <3>2
        <4>2. h[k] = g[k] /\ h[k - 1] = g[k - 1]
          BY <3>2, <4>1
        <4>3. g[k] = MergeFirst(g[k - 1])
          BY <2>2, <3>2, <4>1
        <4> HIDE DEF h
        <4> QED BY <3>2, <4>2, <4>3
      <3>3. CASE k = 0
        <4>1. k \in 0 .. m /\ k # m + 1
          BY <3>3
        <4>2. h[k] = g[k]
          BY <4>1
        <4> HIDE DEF h
        <4> QED BY <2>2, <3>3, <4>1, <4>2
      <3> QED BY <3>1, <3>2, <3>3
    <2>4. Is(h, m + 1)
      BY <2>3
    <2> HIDE DEF Is
    <2> QED BY <2>4
  <1> HIDE DEF S
  <1>3. n \in S
    BY <1>1, <1>2, Induction
  <1> QED BY <1>3 DEF S

\* OneByOne is its last value.
LEMMA OneByOneDef ==
  ASSUME NEW s, Len(s) \in Nat
  PROVE  \E g : IsFirsts(g, s, Len(s)) /\ OneByOne(s) = g[Len(s)]
  <1> DEFINE Is(g) == g = [k \in 0 .. Len(s) |-> IF k = 0 THEN s ELSE MergeFirst(g[k - 1])]
  <1>1. \E g : Is(g)
    BY FirstsExist
  <1>2. Is(CHOOSE g : Is(g))
    BY <1>1
  <1>3. OneByOne(s) = (CHOOSE g : Is(g))[Len(s)]
    BY DEF OneByOne
  <1>4. PICK g : Is(g) /\ OneByOne(s) = g[Len(s)]
    BY <1>2, <1>3
  <1>5. \A k \in 0 .. Len(s) : g[k] = IF k = 0 THEN s ELSE MergeFirst(g[k - 1])
    BY <1>4
  <1> HIDE DEF Is
  <1>6. g[0] = s
    BY <1>5
  <1>7. ASSUME NEW k \in 1 .. Len(s) PROVE g[k] = MergeFirst(g[k - 1])
    <2>1. k \in 0 .. Len(s) /\ k # 0
      OBVIOUS
    <2> QED BY <1>5, <2>1
  <1> QED BY <1>4, <1>6, <1>7 DEF IsFirsts

\* Symbols without a pair to merge are what merging makes of them.
LEMMA OneByOneDone ==
  ASSUME NEW s, Len(s) \in Nat, Ranks(table.merges, s) = {}
  PROVE  OneByOne(s) = s
  <1>1. PICK g : IsFirsts(g, s, Len(s)) /\ OneByOne(s) = g[Len(s)]
    BY OneByOneDef
  <1> DEFINE S == { k \in Nat : k <= Len(s) => g[k] = s }
  <1>2. 0 \in S
    BY <1>1 DEF IsFirsts
  <1>3. ASSUME NEW k \in Nat, k \in S PROVE k + 1 \in S
    <2> SUFFICES ASSUME k + 1 <= Len(s) PROVE g[k + 1] = s
      OBVIOUS
    <2>1. g[k] = s /\ k + 1 \in 1 .. Len(s) /\ (k + 1) - 1 = k
      BY <1>3
    <2>2. g[k + 1] = MergeFirst(g[k])
      <3>1. \A j \in 1 .. Len(s) : g[j] = MergeFirst(g[j - 1])
        BY <1>1 DEF IsFirsts
      <3> QED BY <2>1, <3>1
    <2>3. MergeFirst(s) = s
      BY DEF MergeFirst
    <2> QED BY <2>1, <2>2, <2>3
  <1> HIDE DEF S
  <1>4. Len(s) \in S
    BY <1>2, <1>3, Induction
  <1> QED BY <1>1, <1>4 DEF S

\* Merging one pair leads to the same end.
LEMMA OneByOneStep ==
  ASSUME NEW s, NEW t, Len(s) \in Nat \ {0}, Len(t) = Len(s) - 1, t = MergeFirst(s)
  PROVE  OneByOne(t) = OneByOne(s)
  <1>0. Len(t) \in Nat /\ Len(t) + 1 = Len(s) /\ 1 \in 1 .. Len(s)
    OBVIOUS
  <1>1. PICK g : IsFirsts(g, s, Len(s)) /\ OneByOne(s) = g[Len(s)]
    BY OneByOneDef
  <1>2. PICK h : IsFirsts(h, t, Len(t)) /\ OneByOne(t) = h[Len(t)]
    BY <1>0, OneByOneDef
  <1>3. /\ g[0] = s /\ \A j \in 1 .. Len(s) : g[j] = MergeFirst(g[j - 1])
        /\ h[0] = t /\ \A j \in 1 .. Len(t) : h[j] = MergeFirst(h[j - 1])
    BY <1>1, <1>2 DEF IsFirsts
  <1> DEFINE S == { k \in Nat : k <= Len(t) => h[k] = g[k + 1] }
  <1>4. 0 \in S
    <2>1. g[1] = MergeFirst(g[1 - 1]) /\ 1 - 1 = 0 /\ 0 + 1 = 1
      BY <1>0, <1>3
    <2>2. h[0] = g[1]
      BY <1>3, <2>1
    <2> QED BY <2>1, <2>2
  <1>5. ASSUME NEW k \in Nat, k \in S PROVE k + 1 \in S
    <2> SUFFICES ASSUME k + 1 <= Len(t) PROVE h[k + 1] = g[(k + 1) + 1]
      OBVIOUS
    <2>1. /\ h[k] = g[k + 1] /\ k + 1 \in 1 .. Len(t) /\ (k + 1) - 1 = k
          /\ (k + 1) + 1 \in 1 .. Len(s) /\ ((k + 1) + 1) - 1 = k + 1
      BY <1>0, <1>5
    <2>2. h[k + 1] = MergeFirst(h[k])
      BY <1>3, <2>1
    <2>3. g[(k + 1) + 1] = MergeFirst(g[k + 1])
      BY <1>3, <2>1
    <2> QED BY <2>1, <2>2, <2>3
  <1> HIDE DEF S
  <1>6. Len(t) \in S
    BY <1>0, <1>4, <1>5, Induction
  <1>7. h[Len(t)] = g[Len(s)]
    BY <1>0, <1>6 DEF S
  <1> QED BY <1>1, <1>2, <1>7

\* Merging the first pair of symbols that have one leaves one symbol less.
LEMMA MergeFirstShortens ==
  ASSUME table \in Tables, NEW B, NEW s \in Seq(Seq(B) \ {<<>>}), Ranks(table.merges, s) # {}
  PROVE  MergeFirst(s) \in Seq(Seq(B) \ {<<>>}) /\ Len(MergeFirst(s)) = Len(s) - 1
         /\ Len(s) \in Nat \ {0}
  <1> DEFINE R == Ranks(table.merges, s)
             r == Least(R)
             At == { k \in 1 .. Len(s) - 1 : <<s[k], s[k + 1]>> = table.merges[r] }
             n == Least(At) - 1
             X == Seq(B) \ {<<>>}
  <1>0. Len(s) \in Nat
    BY LenProperties
  <1>1. r \in R /\ Joined(table.merges[r]) \in X
    BY RanksProperties, LeastProperties, LeastPair
  <1> HIDE DEF r
  <1>2. At # {}
    <2>1. PICK k \in 1 .. Len(s) - 1 : r \in Rank(table.merges, s[k], s[k + 1])
      BY <1>1, RanksProperties
    <2>2. k \in At
      BY <2>1, RanksProperties
    <2> QED BY <2>2
  <1>3. At \in SUBSET Nat
    OBVIOUS
  <1>4. Least(At) \in At /\ \A q \in At : Least(At) <= q
    <2> HIDE DEF At
    <2> QED BY <1>2, <1>3, LeastProperties
  <1>5. /\ n \in 0 .. Len(s) - 2 /\ n + 1 = Least(At) /\ n + 2 = Least(At) + 1
        /\ Least(At) \in 1 .. Len(s) - 1
    BY <1>0, <1>4
  <1>6. <<s[n + 1], s[n + 2]>> = table.merges[r]
    <2>1. \A k \in At : <<s[k], s[k + 1]>> = table.merges[r]
      OBVIOUS
    <2> HIDE DEF At, n
    <2> QED BY <1>4, <1>5, <2>1
  <1>7. ASSUME NEW j \in 1 .. n PROVE <<s[j], s[j + 1]>> # table.merges[r]
    <2> SUFFICES ASSUME <<s[j], s[j + 1]>> = table.merges[r] PROVE FALSE
      OBVIOUS
    <2>1. j \in 1 .. Len(s) - 1 /\ j < Least(At)
      <3> HIDE DEF n, At
      <3> QED BY <1>0, <1>5, SMTT(30)
    <2>2. j \in At
      BY <2>1
    <2>3. Least(At) <= j
      <3> HIDE DEF At
      <3> QED BY <1>4, <2>2
    <2> HIDE DEF At, n
    <2> QED BY <1>0, <1>5, <2>1, <2>3
  <1>8. MergedAt(MergeFirst(s), s, n, Joined(table.merges[r]), X)
    <2> HIDE DEF X, n
    <2>1. s \in Seq(X)
      BY DEF X
    <2> QED BY <1>1, <1>5, <1>6, <1>7, <2>1, MergeFirstShape DEF r
  <1>9. Len(s) # 0
    BY <1>5
  <1> QED BY <1>0, <1>8, <1>9 DEF MergedAt

\* So does a pass.
LEMMA PassOneByOne ==
  ASSUME table \in Tables, NEW B, NEW s \in Seq(Seq(B) \ {<<>>}), Ranks(table.merges, s) # {}
  PROVE  OneByOne(MergeAll(s, table.merges[Least(Ranks(table.merges, s))])) = OneByOne(s)
  <1> DEFINE X == Seq(B) \ {<<>>}
             Chain == { x \in Seq(X) : OneByOne(x) = OneByOne(s) }
  <1>1. ClosedUnderFirst(Chain, X)
    <2> SUFFICES ASSUME NEW x \in Chain, Ranks(table.merges, x) # {} PROVE MergeFirst(x) \in Chain
      BY DEF ClosedUnderFirst
    <2>1. x \in Seq(X) /\ OneByOne(x) = OneByOne(s)
      OBVIOUS
    <2>2. MergeFirst(x) \in Seq(X) /\ Len(MergeFirst(x)) = Len(x) - 1 /\ Len(x) \in Nat \ {0}
      BY <2>1, MergeFirstShortens
    <2>3. OneByOne(MergeFirst(x)) = OneByOne(x)
      BY <2>2, OneByOneStep
    <2> HIDE DEF X
    <2> QED BY <2>1, <2>2, <2>3
  <1>2. s \in Chain
    OBVIOUS
  <1> HIDE DEF Chain
  <1>3. MergeAll(s, table.merges[Least(Ranks(table.merges, s))]) \in Chain
    BY <1>1, <1>2, PassIsFirsts
  <1> QED BY <1>3 DEF Chain

-----------------------------------------------------------------------------
(* The inductive invariant.                                                *)

\* The bytes of the input, and the symbols over them.
TokB == Range(text)
Symbols == Seq(TokB) \ {<<>>}

\* The symbols a piece starts with.
Singles(at, to) == [k \in 1 .. PieceEnd(at, to) - at |-> <<text[at + k - 1]>>]

(* Every variable has its type, and an id is a symbol over the input.      *)
TypeInv ==
  /\ table \in Tables /\ text \in Texts /\ cap \in Caps
  /\ pc \in {"scan", "segment", "merge", "encoded", "decoded"}
  /\ status \in {"OK", "NOMEM", "UNKNOWN_SYMBOL", "TRUNCATED"}
  /\ seg \in 1 .. End /\ i \in seg .. End /\ p \in 1 .. End
  /\ ids \in Seq(table.vocab) /\ Len(ids) <= cap
  /\ ids \in Seq(Symbols)

(* While it encodes: what is written spells the input up to the segment,   *)
(* the piece, or the symbols of the piece.                                 *)
WorkInv ==
  /\ pc \in {"scan", "segment", "merge"} => status = "OK"
  /\ pc = "scan" => Spelled = Bytes(1, seg)
  /\ pc \in {"segment", "merge"} => Spelled = Bytes(1, p) /\ (i = End \/ AddedAt(i) # {})
  /\ pc = "segment" => p \in seg .. i
  /\ pc = "merge" => p \in seg .. i - 1

(* In the merge loop: the symbols spell the piece, and merge to what its   *)
(* bytes merge to, one pair at a time.                                     *)
MergeInv ==
  pc = "merge" => /\ syms \in Seq(Symbols)
                  /\ FlattenSeq(syms) = Bytes(p, PieceEnd(p, i))
                  /\ OneByOne(syms) = OneByOne(Singles(p, i))

(* After the return of tok_encode, and of tok_decode.                      *)
DoneInv ==
  /\ pc \in {"encoded", "decoded"} => IsPrefix(Spelled, text)
  /\ pc = "encoded" => /\ status = "OK" => Spelled = text
                       /\ status = "TRUNCATED" => cap < Len(text) /\ Len(ids) = cap
  /\ pc = "decoded" => IsPrefix(out, text) /\ (status = "OK" => out = Spelled)

TokInv == TypeInv /\ WorkInv /\ MergeInv /\ DoneInv

-----------------------------------------------------------------------------
(* What the steps leave alone.                                             *)

\* What depends on the input only.
LEMMA SameText ==
  ASSUME text' = text
  PROVE  /\ TokB' = TokB /\ Symbols' = Symbols /\ End' = End
         /\ \A a, b : Bytes(a, b)' = Bytes(a, b)
  BY DEF TokB, Symbols, End, Bytes

LEMMA SameAdded ==
  ASSUME table' = table, text' = text, NEW a
  PROVE  AddedAt(a)' = AddedAt(a)
  BY DEF AddedAt, Bytes, End

-----------------------------------------------------------------------------
(* What the pieces of the input spell.                                     *)

\* The types of the variables, as the steps need them.
LEMMA TypeFacts ==
  ASSUME TypeInv
  PROVE  /\ text \in Seq(TokB) /\ Len(text) \in Nat /\ End = Len(text) + 1 /\ End \in Nat
         /\ ids \in Seq(Seq(TokB)) /\ Spelled \in Seq(TokB) /\ Len(ids) <= Len(Spelled)
         /\ Len(ids) \in Nat /\ Len(Spelled) \in Nat /\ cap \in Nat
         /\ seg \in Nat /\ i \in Nat /\ p \in Nat
  <1>1. text \in Seq(TokB) /\ Len(text) \in Nat /\ End = Len(text) + 1 /\ End \in Nat
    BY TextFacts DEF TypeInv, TokB
  <1>2. ids \in Seq(Seq(TokB) \ {<<>>})
    BY DEF TypeInv, Symbols
  <1>3. ids \in Seq(Seq(TokB)) /\ Len(ids) <= Len(Spelled)
    BY <1>2, SeqMonotonic, FlattenLength DEF Spelled
  <1>4. Spelled \in Seq(TokB)
    BY <1>3, FlattenSeqType DEF Spelled
  <1>5. cap \in Nat
    BY TokenizerAssumption DEF TypeInv
  <1>6. seg \in Nat /\ i \in Nat /\ p \in Nat
    BY <1>1 DEF TypeInv
  <1> QED BY <1>1, <1>3, <1>4, <1>5, <1>6, LenProperties

\* Bytes up to a position, and on to a later one.
LEMMA BytesJoin ==
  ASSUME text \in Texts, NEW at \in 1 .. End, NEW to \in at .. End
  PROVE  /\ Bytes(1, at) \o Bytes(at, to) = Bytes(1, to)
         /\ IsPrefix(Bytes(1, to), text) /\ Bytes(1, End) = text
         /\ Bytes(1, at) \in Seq(TokB) /\ Bytes(at, to) \in Seq(TokB) /\ Bytes(1, to) \in Seq(TokB)
         /\ Len(Bytes(1, at)) = at - 1
  <1>0. text \in Seq(TokB) /\ Len(text) \in Nat /\ End = Len(text) + 1
    BY TextFacts DEF TokB
  <1>1. /\ 1 \in 1 .. Len(text) + 1 /\ at - 1 \in 1 - 1 .. Len(text)
        /\ to - 1 \in at - 1 .. Len(text) /\ (at - 1) + 1 = at /\ to \in 1 .. End
        /\ 1 \in 1 .. End /\ at \in 1 .. End /\ to \in at .. End /\ at - 1 \in Nat
    BY <1>0
  <1>2. SubSeq(text, 1, at - 1) \o SubSeq(text, (at - 1) + 1, to - 1) = SubSeq(text, 1, to - 1)
    BY <1>0, <1>1, ConcatAdjacentSubSeq
  <1>3. Bytes(1, at) \o Bytes(at, to) = Bytes(1, to)
    BY <1>1, <1>2 DEF Bytes
  <1>4. \A e \in 1 .. End : /\ Bytes(1, e) \in Seq(TokB) /\ Len(Bytes(1, e)) = e - 1
                            /\ \A k \in 1 .. e - 1 : Bytes(1, e)[k] = text[k]
    <2> SUFFICES ASSUME NEW e \in 1 .. End
                 PROVE  /\ Bytes(1, e) \in Seq(TokB) /\ Len(Bytes(1, e)) = e - 1
                        /\ \A k \in 1 .. e - 1 : Bytes(1, e)[k] = text[k]
      OBVIOUS
    <2>1. e - 1 \in 0 .. Len(text)
      BY <1>0
    <2> QED BY <1>0, <2>1, PrefixProperties DEF Bytes
  <1>5. Bytes(at, to) \in Seq(TokB)
    BY <1>1, BytesProperties DEF TokB
  <1>6. IsPrefix(Bytes(1, to), text)
    <2>1. /\ Bytes(1, to) \in Seq(TokB) /\ Len(Bytes(1, to)) = to - 1
          /\ \A k \in 1 .. to - 1 : Bytes(1, to)[k] = text[k]
      BY <1>1, <1>4
    <2>2. to - 1 <= Len(text)
      BY <1>0, <1>1
    <2>3. Len(Bytes(1, to)) <= Len(text) /\ \A k \in 1 .. Len(Bytes(1, to)) : Bytes(1, to)[k] = text[k]
      BY <2>1, <2>2
    <2> QED BY <1>0, <2>1, <2>3, PrefixPointwise
  <1>7. Bytes(1, End) = text
    <2>1. End - 1 = Len(text)
      BY <1>0
    <2> QED BY <1>0, <2>1, SubSeqFull DEF Bytes
  <1> QED BY <1>1, <1>3, <1>4, <1>5, <1>6, <1>7

\* The bytes of a piece, each on its own, spell the piece.
LEMMA SinglesSpell ==
  ASSUME text \in Texts, NEW to \in 1 .. End, NEW at \in 1 .. to - 1
  PROVE  /\ Singles(at, to) \in Seq(Symbols)
         /\ FlattenSeq(Singles(at, to)) = Bytes(at, PieceEnd(at, to))
  <1> DEFINE e == PieceEnd(at, to)
             s == Bytes(at, e)
  <1>1. e \in at + 1 .. to
    BY PieceEndIsPattern
  <1> HIDE DEF e
  <1>2. End \in Nat /\ at \in 1 .. End /\ e \in at .. End /\ e - at \in Nat
    BY <1>1, TextFacts
  <1>3. s \in Seq(TokB) /\ Len(s) = e - at /\ \A k \in 1 .. e - at : s[k] = text[at + k - 1]
    BY <1>2, BytesProperties DEF TokB
  <1> HIDE DEF s
  <1>4. Singles(at, to) = [k \in 1 .. Len(s) |-> <<s[k]>>]
    <2>1. Singles(at, to) = [k \in 1 .. e - at |-> <<text[at + k - 1]>>]
      BY DEF Singles, e
    <2> QED BY <1>3, <2>1
  <1>5. /\ [k \in 1 .. Len(s) |-> <<s[k]>>] \in Seq(Seq(TokB) \ {<<>>})
        /\ FlattenSeq([k \in 1 .. Len(s) |-> <<s[k]>>]) = s
    BY <1>3, FlattenSingles
  <1> QED BY <1>4, <1>5 DEF e, s, Symbols

-----------------------------------------------------------------------------
(* The steps.                                                              *)

\* TokInv holds before the first step.
LEMMA InitInv == TokInit => TokInv
  <1> SUFFICES ASSUME TokInit PROVE TokInv
    OBVIOUS
  <1> USE DEF TokInit
  <1>1. End \in Nat \ {0} /\ text \in Seq(Range(text))
    BY TextFacts
  <1>2. <<>> \in Seq(table.vocab) /\ <<>> \in Seq(Symbols) /\ Len(<<>>) = 0
    BY EmptySeq
  <1>3. cap \in Nat
    BY TokenizerAssumption
  <1>4. TypeInv
    BY <1>1, <1>2, <1>3 DEF TypeInv
  <1>5. Spelled = Bytes(1, seg)
    <2>1. SubSeq(text, 1, 1 - 1) = <<>>
      BY SubSeqEmpty
    <2> QED BY <2>1, FlattenEmpty DEF Spelled, Bytes
  <1>6. WorkInv
    BY <1>5 DEF WorkInv
  <1> QED BY <1>4, <1>6 DEF TokInv, MergeInv, DoneInv

\* A byte where no added token begins.
LEMMA ScanByteInv == TokInv /\ ScanByte => TokInv'
  <1> SUFFICES ASSUME TokInv, ScanByte PROVE TokInv'
    OBVIOUS
  <1>1. /\ pc = "scan" /\ i < End /\ i' = i + 1
        /\ table' = table /\ text' = text /\ cap' = cap /\ pc' = pc /\ seg' = seg /\ p' = p
        /\ syms' = syms /\ ids' = ids /\ out' = out /\ status' = status
    BY DEF ScanByte
  <1>2. TypeInv /\ WorkInv
    BY DEF TokInv
  <1>3. TokB' = TokB /\ Symbols' = Symbols /\ End' = End /\ Spelled' = Spelled
        /\ \A a, b : Bytes(a, b)' = Bytes(a, b)
    BY <1>1, SameText DEF Spelled
  <1>4. TypeInv'
    <2>1. i' \in seg .. End
      BY <1>1, <1>2, TypeFacts DEF TypeInv
    <2> QED BY <1>1, <1>2, <1>3, <2>1 DEF TypeInv
  <1>5. WorkInv'
    <2>1. Spelled' = Bytes(1, seg)'
      BY <1>1, <1>2, <1>3 DEF WorkInv
    <2> QED BY <1>1, <1>2, <2>1 DEF WorkInv
  <1> QED BY <1>1, <1>4, <1>5 DEF TokInv, MergeInv, DoneInv

\* The segment before an added token, or the last.
LEMMA EncodeSegmentInv == TokInv /\ EncodeSegment => TokInv'
  <1> SUFFICES ASSUME TokInv, EncodeSegment PROVE TokInv'
    OBVIOUS
  <1>1. /\ pc = "scan" /\ (i = End \/ AddedAt(i) # {}) /\ pc' = "segment" /\ p' = seg
        /\ table' = table /\ text' = text /\ cap' = cap /\ seg' = seg /\ i' = i
        /\ syms' = syms /\ ids' = ids /\ out' = out /\ status' = status
    BY DEF EncodeSegment
  <1>2. TypeInv /\ WorkInv
    BY DEF TokInv
  <1>3. TokB' = TokB /\ Symbols' = Symbols /\ End' = End /\ Spelled' = Spelled
        /\ (\A a, b : Bytes(a, b)' = Bytes(a, b)) /\ AddedAt(i)' = AddedAt(i)
    BY <1>1, SameText, SameAdded DEF Spelled, AddedAt
  <1>4. TypeInv'
    BY <1>1, <1>2, <1>3, TypeFacts DEF TypeInv
  <1>5. WorkInv'
    <2>1. Spelled' = Bytes(1, p)'
      <3>1. Spelled = Bytes(1, seg)
        BY <1>1, <1>2 DEF WorkInv
      <3>2. Bytes(1, p)' = Bytes(1, seg)
        BY <1>1 DEF Bytes
      <3> QED BY <1>3, <3>1, <3>2
    <2>2. p' \in seg' .. i'
      BY <1>1, <1>2, TypeFacts DEF TypeInv
    <2>3. i' = End' \/ (AddedAt(i) # {})'
      BY <1>1, <1>3
    <2> QED BY <1>1, <1>2, <2>1, <2>2, <2>3 DEF WorkInv
  <1> QED BY <1>1, <1>4, <1>5 DEF TokInv, MergeInv, DoneInv

\* The bytes of the next piece, or no memory for them.
LEMMA StartPieceInv == ASSUME TokInv, NEW mem \in BOOLEAN, StartPiece(mem) PROVE TokInv'
  <1>1. /\ pc = "segment" /\ p < i
        /\ pc' = IF mem THEN "merge" ELSE "encoded"
        /\ status' = IF mem THEN status ELSE "NOMEM"
        /\ syms' = Singles(p, i)
        /\ table' = table /\ text' = text /\ cap' = cap /\ seg' = seg /\ i' = i /\ p' = p
        /\ ids' = ids /\ out' = out
    BY DEF StartPiece, Finish, Singles
  <1>2. TypeInv /\ WorkInv
    BY DEF TokInv
  <1>3. TokB' = TokB /\ Symbols' = Symbols /\ End' = End /\ Spelled' = Spelled
        /\ Bytes(1, p)' = Bytes(1, p) /\ AddedAt(i)' = AddedAt(i)
    BY <1>1, SameText DEF Spelled, AddedAt, Bytes, End
  <1>4. TypeInv'
    BY <1>1, <1>2, <1>3 DEF TypeInv
  <1>5. Spelled = Bytes(1, p) /\ p \in seg .. i - 1 /\ p \in 1 .. i - 1 /\ i \in 1 .. End
        /\ text \in Texts /\ status = "OK" /\ (i = End \/ AddedAt(i) # {})
    BY <1>1, <1>2, TypeFacts DEF WorkInv, TypeInv
  <1>6. WorkInv'
    BY <1>1, <1>3, <1>5 DEF WorkInv
  <1>7. MergeInv'
    <2>1. Singles(p, i) \in Seq(Symbols) /\ FlattenSeq(Singles(p, i)) = Bytes(p, PieceEnd(p, i))
      BY <1>5, SinglesSpell
    <2>2. Bytes(p, PieceEnd(p, i))' = Bytes(p, PieceEnd(p, i)) /\ Singles(p, i)' = Singles(p, i)
      <3>1. PieceEnd(p, i)' = PieceEnd(p, i)
        BY <1>1 DEF PieceEnd, RunEnd, LastOfRun, Contracted, ClassAt, CharLen, Bytes
      <3> QED BY <1>1, <3>1 DEF Bytes, Singles
    <2> QED BY <1>1, <1>3, <2>1, <2>2 DEF MergeInv
  <1>8. DoneInv'
    <2>1. IsPrefix(Spelled, text)
      <3>1. p \in 1 .. End /\ End \in p .. End
        BY <1>2, TypeFacts DEF TypeInv
      <3>2. 1 \in 1 .. End /\ p \in 1 .. End
        BY <3>1
      <3> QED BY <1>5, <3>2, BytesJoin
    <2> QED BY <1>1, <1>3, <2>1 DEF DoneInv
  <1> QED BY <1>4, <1>6, <1>7, <1>8 DEF TokInv

\* A pass keeps what the symbols spell and what they merge to.
LEMMA MergePassInv == TokInv /\ MergePass => TokInv'
  <1> SUFFICES ASSUME TokInv, MergePass PROVE TokInv'
    OBVIOUS
  <1> DEFINE r == Least(Ranks(table.merges, syms))
             next == MergeAll(syms, table.merges[r])
  <1>1. /\ pc = "merge" /\ Ranks(table.merges, syms) # {} /\ syms' = next
        /\ table' = table /\ text' = text /\ cap' = cap /\ pc' = pc /\ seg' = seg /\ i' = i
        /\ p' = p /\ ids' = ids /\ out' = out /\ status' = status
    BY DEF MergePass
  <1>2. TypeInv /\ WorkInv /\ MergeInv /\ DoneInv
    BY DEF TokInv
  <1>3. table \in Tables
    BY <1>2 DEF TypeInv
  <1>4. /\ syms \in Seq(Symbols) /\ FlattenSeq(syms) = Bytes(p, PieceEnd(p, i))
        /\ OneByOne(syms) = OneByOne(Singles(p, i))
    BY <1>1, <1>2 DEF MergeInv
  <1>5. syms \in Seq(Seq(TokB) \ {<<>>})
    BY <1>4 DEF Symbols
  <1>6. Joined(table.merges[r]) \in Seq(TokB) \ {<<>>}
    BY <1>1, <1>3, <1>5, LeastPair
  <1>7. next \in Seq(Symbols) /\ FlattenSeq(next) = FlattenSeq(syms)
    BY <1>5, <1>6, MergeAllSpells DEF Symbols
  <1>8. OneByOne(next) = OneByOne(syms)
    BY <1>1, <1>3, <1>5, PassOneByOne
  <1> HIDE DEF next, r
  <1>9. TokB' = TokB /\ Symbols' = Symbols /\ End' = End /\ Spelled' = Spelled
        /\ (\A a, b : Bytes(a, b)' = Bytes(a, b)) /\ AddedAt(i)' = AddedAt(i)
    BY <1>1, SameText DEF Spelled, AddedAt, Bytes, End
  <1>10. TypeInv'
    BY <1>1, <1>2, <1>9 DEF TypeInv
  <1>11. WorkInv'
    <2>1. Spelled' = Bytes(1, p)'
      <3>1. Spelled = Bytes(1, p) /\ Bytes(1, p)' = Bytes(1, p)
        BY <1>1, <1>2 DEF WorkInv, Bytes
      <3> QED BY <1>9, <3>1
    <2> QED BY <1>1, <1>2, <1>9, <2>1 DEF WorkInv
  <1>12. MergeInv'
    <2>1. PieceEnd(p, i)' = PieceEnd(p, i)
      BY <1>1 DEF PieceEnd, RunEnd, LastOfRun, Contracted, ClassAt, CharLen, Bytes
    <2>2. Singles(p, i)' = Singles(p, i) /\ Bytes(p, PieceEnd(p, i))' = Bytes(p, PieceEnd(p, i))
      BY <1>1, <2>1 DEF Singles, Bytes
    <2>3. OneByOne(syms)' = OneByOne(next)
      BY <1>1 DEF OneByOne, MergeFirst, Ranks, Rank
    <2>4. OneByOne(Singles(p, i))' = OneByOne(Singles(p, i))
      BY <1>1, <2>2 DEF OneByOne, MergeFirst, Ranks, Rank
    <2>5. syms' \in Seq(Symbols)' /\ FlattenSeq(syms)' = FlattenSeq(next)
      BY <1>1, <1>7, <1>9
    <2> QED BY <1>1, <1>4, <1>7, <1>8, <2>2, <2>3, <2>4, <2>5 DEF MergeInv
  <1>13. DoneInv'
    BY <1>1 DEF DoneInv
  <1> QED BY <1>10, <1>11, <1>12, <1>13 DEF TokInv

\* Decoding writes what the ids spell, as far as the buffer goes.
LEMMA DecodeInv == ASSUME TokInv, NEW size \in Caps, Decode(size) PROVE TokInv'
  <1>1. /\ pc = "encoded" /\ pc' = "decoded"
        /\ out' = IF Len(Spelled) > size THEN SubSeq(Spelled, 1, size) ELSE Spelled
        /\ status' = IF Len(Spelled) > size THEN "TRUNCATED" ELSE "OK"
        /\ table' = table /\ text' = text /\ cap' = cap /\ seg' = seg /\ i' = i
        /\ p' = p /\ ids' = ids /\ syms' = syms
    BY DEF Decode
  <1>2. TypeInv /\ DoneInv
    BY DEF TokInv
  <1>3. TokB' = TokB /\ Symbols' = Symbols /\ End' = End /\ Spelled' = Spelled
    BY <1>1, SameText DEF Spelled
  <1>4. TypeInv'
    BY <1>1, <1>2, <1>3 DEF TypeInv
  <1>5. IsPrefix(Spelled, text) /\ text \in Seq(TokB) /\ Spelled \in Seq(TokB) /\ Len(Spelled) \in Nat
    BY <1>1, <1>2, TypeFacts DEF DoneInv
  <1>6. IsPrefix(out', text)
    <2>1. CASE Len(Spelled) > size
      <3>1. size \in 0 .. Len(Spelled)
        BY <1>5, <2>1, TokenizerAssumption
      <3>2. IsPrefix(SubSeq(Spelled, 1, size), text)
        BY <1>5, <3>1, PrefixOfPrefix
      <3> QED BY <1>1, <2>1, <3>2
    <2>2. CASE ~(Len(Spelled) > size)
      BY <1>1, <1>5, <2>2
    <2> QED BY <2>1, <2>2
  <1>7. status' = "OK" => out' = Spelled
    BY <1>1
  <1>8. DoneInv'
    BY <1>1, <1>3, <1>5, <1>6, <1>7 DEF DoneInv
  <1> QED BY <1>1, <1>4, <1>8 DEF TokInv, WorkInv, MergeInv

\* A step that changes nothing.
LEMMA StutterInv == TokInv /\ UNCHANGED tokVars => TokInv'
  <1> SUFFICES ASSUME TokInv, UNCHANGED tokVars PROVE TokInv'
    OBVIOUS
  <1>1. /\ table' = table /\ text' = text /\ cap' = cap /\ pc' = pc /\ seg' = seg /\ i' = i
        /\ p' = p /\ ids' = ids /\ out' = out /\ status' = status /\ syms' = syms
    BY DEF tokVars
  <1>2. TypeInv /\ WorkInv /\ MergeInv /\ DoneInv
    BY DEF TokInv
  <1>3. TypeInv'
    BY <1>1, <1>2 DEF TypeInv, Symbols, TokB, End
  <1>4. WorkInv'
    BY <1>1, <1>2 DEF WorkInv, Spelled, AddedAt, Bytes, End
  <1>5. MergeInv'
    <2>1. PieceEnd(p, i)' = PieceEnd(p, i)
      BY <1>1 DEF PieceEnd, RunEnd, LastOfRun, Contracted, ClassAt, CharLen, Bytes
    <2>2. Singles(p, i)' = Singles(p, i) /\ Bytes(p, PieceEnd(p, i))' = Bytes(p, PieceEnd(p, i))
      BY <1>1, <2>1 DEF Singles, Bytes
    <2>3. OneByOne(syms)' = OneByOne(syms)
      BY <1>1 DEF OneByOne, MergeFirst, Ranks, Rank
    <2>4. OneByOne(Singles(p, i))' = OneByOne(Singles(p, i))
      BY <1>1, <2>2 DEF OneByOne, MergeFirst, Ranks, Rank
    <2>5. Symbols' = Symbols
      BY <1>1 DEF Symbols, TokB
    <2> QED BY <1>1, <1>2, <2>2, <2>3, <2>4, <2>5 DEF MergeInv
  <1>6. DoneInv'
    BY <1>1, <1>2 DEF DoneInv, Spelled
  <1> QED BY <1>3, <1>4, <1>5, <1>6 DEF TokInv

\* The added token the scan takes.
LEMMA LongestAdded ==
  ASSUME TypeInv, AddedAt(i) # {}
  PROVE  LET a == Longest(AddedAt(i)) IN
         /\ a \in table.vocab /\ a \in Symbols /\ Len(a) \in Nat \ {0}
         /\ i < End /\ i + Len(a) \in i + 1 .. End /\ a = Bytes(i, i + Len(a))
  <1> DEFINE A == AddedAt(i)
             L == { n \in 0 .. End : \E b \in A : Len(b) = n }
  <1>1. text \in Texts /\ table \in Tables /\ i \in 1 .. End /\ i \in Nat /\ End \in Nat
    BY TypeFacts DEF TypeInv
  <1>2. ASSUME NEW b \in A
        PROVE  /\ b \in table.added /\ b \in table.vocab /\ Len(b) \in Nat \ {0}
               /\ i + Len(b) <= End /\ b = Bytes(i, i + Len(b)) /\ Len(b) \in L
    <2>1. b \in table.added /\ i + Len(b) <= End /\ Bytes(i, i + Len(b)) = b
      BY DEF AddedAt
    <2>2. table.added \subseteq table.vocab /\ Len(b) \in Nat \ {0}
      BY <1>1, <2>1, TokenizerAssumption
    <2>3. Len(b) \in 0 .. End
      BY <1>1, <2>1, <2>2
    <2> QED BY <2>1, <2>2, <2>3
  <1>3. PICK b \in A : TRUE
    OBVIOUS
  <1>4. L # {} /\ L \in SUBSET (0 .. End)
    BY <1>2, <1>3
  <1>5. PICK n \in L : \A m \in L : m <= n
    <2> HIDE DEF L
    <2> QED BY <1>1, <1>4, MaxProperties
  <1>6. \E a \in A : \A c \in A : Len(c) <= Len(a)
    <2>1. PICK d \in A : Len(d) = n
      BY <1>5
    <2>2. \A c \in A : Len(c) <= n
      BY <1>2, <1>5
    <2> QED BY <2>1, <2>2
  <1>7. Longest(A) \in A
    BY <1>6 DEF Longest
  <1> DEFINE a == Longest(A)
  <1>8. /\ a \in table.vocab /\ Len(a) \in Nat \ {0} /\ i + Len(a) <= End
        /\ a = Bytes(i, i + Len(a))
    BY <1>2, <1>7
  <1> HIDE DEF a, A
  <1>9. i < End /\ i + Len(a) \in i + 1 .. End /\ i + Len(a) \in i .. End
    BY <1>1, <1>8
  <1>10. a \in Seq(TokB)
    BY <1>1, <1>8, <1>9, BytesProperties DEF TokB
  <1>11. a # <<>>
    BY <1>8
  <1> QED BY <1>8, <1>9, <1>10, <1>11 DEF a, A, Symbols

\* The added token after the segment, or the end.
LEMMA EndSegmentInv == TokInv /\ EndSegment => TokInv'
  <1> SUFFICES ASSUME TokInv, EndSegment PROVE TokInv'
    OBVIOUS
  <1> DEFINE a == Longest(AddedAt(i))
  <1>1. /\ pc = "segment" /\ p = i
        /\ IF i = End
           THEN pc' = "encoded" /\ status' = "OK" /\ ids' = ids /\ i' = i /\ seg' = seg
           ELSE IF Len(ids) >= cap
           THEN pc' = "encoded" /\ status' = "TRUNCATED" /\ ids' = ids /\ i' = i /\ seg' = seg
           ELSE /\ pc' = "scan" /\ status' = status /\ ids' = Append(ids, a)
                /\ i' = i + Len(a) /\ seg' = i + Len(a)
        /\ table' = table /\ text' = text /\ cap' = cap /\ p' = p
        /\ syms' = syms /\ out' = out
    BY DEF EndSegment, Finish
  <1>2. TypeInv /\ WorkInv
    BY DEF TokInv
  <1>3. TokB' = TokB /\ Symbols' = Symbols /\ End' = End /\ \A b, e : Bytes(b, e)' = Bytes(b, e)
    BY <1>1, SameText
  <1>4. /\ ids \in Seq(table.vocab) /\ ids \in Seq(Symbols) /\ ids \in Seq(Seq(TokB))
        /\ Len(ids) \in Nat /\ cap \in Nat /\ Len(ids) <= cap /\ End = Len(text) + 1
        /\ text \in Seq(TokB) /\ text \in Texts /\ status = "OK" /\ End \in Nat
        /\ Len(text) \in Nat /\ i \in 1 .. End /\ i \in Nat /\ Len(ids) <= Len(Spelled)
    BY <1>1, <1>2, TypeFacts DEF TypeInv, WorkInv
  <1>5. Spelled = Bytes(1, i) /\ (i = End \/ AddedAt(i) # {})
    BY <1>1, <1>2 DEF WorkInv
  <1>6. /\ Len(Bytes(1, i)) = i - 1 /\ IsPrefix(Bytes(1, i), text) /\ Bytes(1, End) = text
        /\ Bytes(1, i) \in Seq(TokB)
    <2>1. 1 \in 1 .. End /\ i \in i .. End
      BY <1>4
    <2> QED BY <1>4, <2>1, BytesJoin
  <1> HIDE DEF a
  <1>7. CASE i = End
    <2>1. pc' = "encoded" /\ status' = "OK" /\ ids' = ids /\ i' = i /\ seg' = seg
      BY <1>1, <1>7
    <2>2. TypeInv'
      BY <1>1, <1>2, <1>3, <2>1 DEF TypeInv
    <2>3. Spelled' = text' /\ IsPrefix(Spelled', text')
      BY <1>1, <1>5, <1>6, <1>7, <2>1 DEF Spelled
    <2>4. DoneInv'
      BY <2>1, <2>3 DEF DoneInv
    <2> QED BY <2>1, <2>2, <2>4 DEF TokInv, WorkInv, MergeInv
  <1>8. CASE i # End
    <2>0. /\ a \in table.vocab /\ a \in Symbols /\ Len(a) \in Nat \ {0}
          /\ i < End /\ i + Len(a) \in i + 1 .. End /\ a = Bytes(i, i + Len(a))
      BY <1>2, <1>5, <1>8, LongestAdded DEF a
    <2>1. CASE Len(ids) >= cap
      <3>1. pc' = "encoded" /\ status' = "TRUNCATED" /\ ids' = ids /\ i' = i /\ seg' = seg
        BY <1>1, <1>8, <2>1
      <3>2. TypeInv'
        BY <1>1, <1>2, <1>3, <3>1 DEF TypeInv
      <3>3. IsPrefix(Spelled', text')
        BY <1>1, <1>5, <1>6, <3>1 DEF Spelled
      <3>4. cap < Len(text) /\ Len(ids) = cap
        <4>1. Len(ids) <= i - 1
          BY <1>4, <1>5, <1>6
        <4> QED BY <1>4, <2>0, <2>1, <4>1
      <3>5. DoneInv'
        BY <1>1, <3>1, <3>3, <3>4 DEF DoneInv
      <3> QED BY <3>1, <3>2, <3>5 DEF TokInv, WorkInv, MergeInv
    <2>2. CASE ~(Len(ids) >= cap)
      <3>1. /\ pc' = "scan" /\ status' = status /\ ids' = Append(ids, a)
            /\ i' = i + Len(a) /\ seg' = i + Len(a)
        BY <1>1, <1>8, <2>2
      <3>2. /\ Append(ids, a) \in Seq(table.vocab) /\ Append(ids, a) \in Seq(Symbols)
            /\ Len(Append(ids, a)) = Len(ids) + 1
        BY <1>4, <2>0, AppendProperties
      <3>3. i + Len(a) \in 1 .. End /\ i + Len(a) \in Nat /\ i + Len(a) \in i + Len(a) .. End
            /\ i + Len(a) \in i .. End
        BY <1>4, <2>0
      <3>4. Len(Append(ids, a)) <= cap
        BY <1>4, <2>2, <3>2
      <3>5. TypeInv'
        BY <1>1, <1>2, <1>3, <3>1, <3>2, <3>3, <3>4 DEF TypeInv
      <3>6. Spelled' = Bytes(1, seg)'
        <4>1. a \in Seq(TokB)
          BY <2>0 DEF Symbols
        <4>2. FlattenSeq(Append(ids, a)) = Spelled \o a
          BY <1>4, <4>1, FlattenAppend DEF Spelled
        <4>3. Bytes(1, i) \o Bytes(i, i + Len(a)) = Bytes(1, i + Len(a))
          BY <1>4, <3>3, BytesJoin
        <4>4. Spelled \o a = Bytes(1, i + Len(a))
          BY <1>5, <2>0, <4>3
        <4>5. Bytes(1, seg)' = Bytes(1, i + Len(a))
          BY <1>1, <3>1 DEF Bytes
        <4>6. Spelled' = FlattenSeq(Append(ids, a))
          BY <3>1 DEF Spelled
        <4> QED BY <4>2, <4>4, <4>5, <4>6
      <3>7. WorkInv'
        BY <1>4, <3>1, <3>6 DEF WorkInv
      <3> QED BY <3>1, <3>5, <3>7 DEF TokInv, MergeInv, DoneInv
    <2> QED BY <2>1, <2>2
  <1> QED BY <1>7, <1>8

\* What the ids spell, and what the symbols of the piece spell, in the merge loop.
LEMMA PieceFacts ==
  ASSUME TokInv, pc = "merge"
  PROVE  /\ syms \in Seq(Symbols) /\ syms \in Seq(Seq(TokB)) /\ Len(syms) \in Nat
         /\ PieceEnd(p, i) \in p + 1 .. i /\ PieceEnd(p, i) \in 1 .. End
         /\ text \in Texts /\ p \in 1 .. End /\ PieceEnd(p, i) \in p .. End
         /\ Spelled \o FlattenSeq(syms) = Bytes(1, PieceEnd(p, i))
         /\ Len(ids) + Len(syms) < End
         /\ \A k \in 1 .. Len(syms) : syms[k] \in Symbols
  <1>1. TypeInv /\ WorkInv /\ MergeInv
    BY DEF TokInv
  <1>2. text \in Texts /\ i \in 1 .. End /\ p \in 1 .. i - 1 /\ p \in 1 .. End /\ End \in Nat
    BY <1>1, TypeFacts DEF TypeInv, WorkInv
  <1>3. PieceEnd(p, i) \in p + 1 .. i
    BY <1>2, PieceEndIsPattern
  <1> DEFINE e == PieceEnd(p, i)
  <1>4. e \in 1 .. End /\ e \in p .. End
    BY <1>2, <1>3
  <1>5. syms \in Seq(Symbols) /\ FlattenSeq(syms) = Bytes(p, e) /\ Spelled = Bytes(1, p)
    BY <1>1 DEF MergeInv, WorkInv
  <1> HIDE DEF e
  <1>6. /\ Bytes(1, p) \o Bytes(p, e) = Bytes(1, e) /\ Len(Bytes(1, p)) = p - 1
        /\ Bytes(p, e) \in Seq(TokB)
    BY <1>2, <1>4, BytesJoin
  <1>7. syms \in Seq(Seq(TokB) \ {<<>>})
    BY <1>5 DEF Symbols
  <1>8. syms \in Seq(Seq(TokB)) /\ Len(syms) <= Len(FlattenSeq(syms)) /\ Len(syms) \in Nat
    BY <1>7, SeqMonotonic, FlattenLength, LenProperties
  <1>9. Len(Bytes(p, e)) = e - p
    BY <1>2, <1>4, BytesProperties
  <1>10. Len(ids) + Len(syms) < End
    <2>1. Len(ids) <= p - 1 /\ Len(ids) \in Nat
      BY <1>1, <1>5, <1>6, TypeFacts
    <2>2. Len(syms) <= e - p
      BY <1>5, <1>8, <1>9
    <2> QED BY <1>2, <1>3, <1>4, <1>8, <2>1, <2>2
  <1>11. \A k \in 1 .. Len(syms) : syms[k] \in Symbols
    BY <1>5, ElementOfSeq
  <1> QED BY <1>2, <1>3, <1>4, <1>5, <1>6, <1>8, <1>10, <1>11 DEF e

\* The ids of the piece, or of its symbols up to the first that fails.
LEMMA EmitPieceInv == TokInv /\ EmitPiece => TokInv'
  <1> SUFFICES ASSUME TokInv, EmitPiece PROVE TokInv'
    OBVIOUS
  <1> DEFINE fails == EmitFails(syms, cap - Len(ids))
             stop  == Least(fails)
             kept  == SubSeq(syms, 1, stop - 1)
             e     == PieceEnd(p, i)
  <1>1. /\ pc = "merge"
        /\ IF fails = {}
           THEN ids' = ids \o syms /\ p' = e /\ pc' = "segment" /\ status' = status
           ELSE /\ ids' = ids \o kept /\ p' = p /\ pc' = "encoded"
                /\ status' = IF syms[stop] \notin table.vocab THEN "UNKNOWN_SYMBOL"
                             ELSE "TRUNCATED"
        /\ table' = table /\ text' = text /\ cap' = cap /\ seg' = seg /\ i' = i
        /\ syms' = syms /\ out' = out
    BY DEF EmitPiece, Finish
  <1>2. TypeInv /\ WorkInv
    BY DEF TokInv
  <1>3. /\ syms \in Seq(Symbols) /\ syms \in Seq(Seq(TokB)) /\ Len(syms) \in Nat
        /\ e \in p + 1 .. i /\ e \in 1 .. End
        /\ text \in Texts /\ p \in 1 .. End /\ e \in p .. End
        /\ Spelled \o FlattenSeq(syms) = Bytes(1, e)
        /\ Len(ids) + Len(syms) < End
        /\ \A k \in 1 .. Len(syms) : syms[k] \in Symbols
    BY <1>1, PieceFacts
  <1>4. TokB' = TokB /\ Symbols' = Symbols /\ End' = End /\ AddedAt(i)' = AddedAt(i)
        /\ \A a, b : Bytes(a, b)' = Bytes(a, b)
    BY <1>1, SameText DEF AddedAt, Bytes, End
  <1>5. /\ ids \in Seq(table.vocab) /\ ids \in Seq(Symbols) /\ ids \in Seq(Seq(TokB))
        /\ Len(ids) \in Nat /\ cap \in Nat /\ Len(ids) <= cap /\ End = Len(text) + 1
        /\ text \in Seq(TokB) /\ Spelled \in Seq(TokB) /\ status = "OK" /\ End \in Nat
        /\ Len(text) \in Nat
    BY <1>1, <1>2, TypeFacts DEF TypeInv, WorkInv
  <1>6. \A k : k \in fails <=> k \in 1 .. Len(syms) /\ (syms[k] \notin table.vocab \/ k > cap - Len(ids))
    <2>1. DOMAIN syms = 1 .. Len(syms)
      BY <1>3, LenProperties
    <2> QED BY <2>1 DEF EmitFails
  <1> HIDE DEF fails, e
  <1>7. ASSUME NEW n \in 0 .. Len(syms), \A k \in 1 .. n : syms[k] \in table.vocab /\ k <= cap - Len(ids)
        PROVE  LET s == SubSeq(syms, 1, n) IN
               /\ ids \o s \in Seq(table.vocab) /\ ids \o s \in Seq(Symbols)
               /\ Len(ids \o s) = Len(ids) + n /\ Len(ids \o s) <= cap
               /\ FlattenSeq(ids \o s) = Spelled \o FlattenSeq(s) /\ s \in Seq(Seq(TokB))
    <2> DEFINE s == SubSeq(syms, 1, n)
    <2>1. s \in Seq(Symbols) /\ Len(s) = n /\ (\A k \in 1 .. n : s[k] = syms[k]) /\ n \in Nat
      BY <1>3, PrefixProperties
    <2>2. s \in Seq(Seq(TokB))
      BY <1>3, PrefixProperties
    <2> HIDE DEF s
    <2>3. s \in Seq(table.vocab)
      <3>1. \A k \in 1 .. Len(s) : s[k] \in table.vocab
        BY <1>7, <2>1
      <3> QED BY <2>1, <3>1, SeqOfElements
    <2>4. ids \o s \in Seq(table.vocab) /\ ids \o s \in Seq(Symbols) /\ Len(ids \o s) = Len(ids) + n
      BY <1>5, <2>1, <2>3, ConcatProperties
    <2>5. Len(ids) + n <= cap
      <3>1. CASE n = 0
        BY <1>5, <3>1
      <3>2. CASE n # 0
        <4>1. n \in 1 .. n
          BY <2>1, <3>2
        <4> QED BY <1>5, <1>7, <2>1, <4>1
      <3> QED BY <3>1, <3>2
    <2>6. FlattenSeq(ids \o s) = Spelled \o FlattenSeq(s)
      BY <1>5, <2>2, FlattenConcat DEF Spelled
    <2> QED BY <2>2, <2>4, <2>5, <2>6 DEF s
  <1>8. CASE fails = {}
    <2>1. \A k \in 1 .. Len(syms) : syms[k] \in table.vocab /\ k <= cap - Len(ids)
      <3> SUFFICES ASSUME NEW k \in 1 .. Len(syms)
                   PROVE  syms[k] \in table.vocab /\ k <= cap - Len(ids)
        OBVIOUS
      <3>1. k \notin fails
        BY <1>8
      <3>2. k \in Int /\ cap - Len(ids) \in Int
        BY <1>3, <1>5
      <3>3. syms[k] \in table.vocab /\ ~(k > cap - Len(ids))
        BY <1>6, <3>1
      <3> QED BY <3>2, <3>3
    <2>2. SubSeq(syms, 1, Len(syms)) = syms /\ Len(syms) \in 0 .. Len(syms)
      BY <1>3, SubSeqFull
    <2>3. /\ ids \o syms \in Seq(table.vocab) /\ ids \o syms \in Seq(Symbols)
          /\ Len(ids \o syms) <= cap /\ FlattenSeq(ids \o syms) = Spelled \o FlattenSeq(syms)
      BY <1>7, <2>1, <2>2
    <2>4. ids' = ids \o syms /\ p' = e /\ pc' = "segment" /\ status' = status
      BY <1>1, <1>8
    <2>5. TypeInv'
      BY <1>1, <1>2, <1>3, <1>4, <2>3, <2>4 DEF TypeInv
    <2>6. Spelled' = Bytes(1, p)'
      <3>1. Spelled' = Bytes(1, e)
        BY <1>3, <2>3, <2>4 DEF Spelled
      <3>2. Bytes(1, p)' = Bytes(1, e)
        BY <1>1, <2>4 DEF Bytes
      <3> QED BY <3>1, <3>2
    <2>7. e \in seg .. i
      BY <1>1, <1>2, <1>3, TypeFacts DEF WorkInv
    <2>8. i = End \/ AddedAt(i) # {}
      BY <1>1, <1>2 DEF WorkInv
    <2>9. WorkInv'
      BY <1>1, <1>4, <1>5, <2>4, <2>6, <2>7, <2>8 DEF WorkInv
    <2> QED BY <2>4, <2>5, <2>9 DEF TokInv, MergeInv, DoneInv
  <1>9. CASE fails # {}
    <2>1. stop \in fails /\ \A q \in fails : stop <= q
      <3>1. fails \in SUBSET Nat
        BY <1>6
      <3> QED BY <1>9, <3>1, LeastProperties
    <2> HIDE DEF stop
    <2>2. /\ stop \in 1 .. Len(syms) /\ stop \in Nat /\ stop - 1 \in 0 .. Len(syms)
          /\ syms[stop] \notin table.vocab \/ stop > cap - Len(ids)
      BY <1>3, <1>6, <2>1
    <2>3. \A k \in 1 .. stop - 1 : syms[k] \in table.vocab /\ k <= cap - Len(ids)
      <3> SUFFICES ASSUME NEW k \in 1 .. stop - 1
                   PROVE  syms[k] \in table.vocab /\ k <= cap - Len(ids)
        OBVIOUS
      <3>1. k \in 1 .. Len(syms) /\ ~(stop <= k)
        BY <1>3, <2>2
      <3>2. k \notin fails
        BY <2>1, <3>1
      <3> QED BY <1>5, <1>6, <3>1, <3>2, SMTT(30)
    <2>4. /\ ids \o kept \in Seq(table.vocab) /\ ids \o kept \in Seq(Symbols)
          /\ Len(ids \o kept) = Len(ids) + (stop - 1) /\ Len(ids \o kept) <= cap
          /\ FlattenSeq(ids \o kept) = Spelled \o FlattenSeq(kept) /\ kept \in Seq(Seq(TokB))
      BY <1>7, <2>2, <2>3
    <2> HIDE DEF kept
    <2>5. /\ ids' = ids \o kept /\ p' = p /\ pc' = "encoded"
          /\ status' = IF syms[stop] \notin table.vocab THEN "UNKNOWN_SYMBOL" ELSE "TRUNCATED"
      BY <1>1, <1>9
    <2>6. TypeInv'
      BY <1>1, <1>2, <1>4, <2>4, <2>5 DEF TypeInv
    <2>7. IsPrefix(Spelled', text')
      <3>1. PICK rest \in Seq(TokB) : FlattenSeq(syms) = FlattenSeq(kept) \o rest
        BY <1>3, <2>2, FlattenSplit DEF kept
      <3>2. FlattenSeq(kept) \in Seq(TokB)
        BY <2>4, FlattenSeqType
      <3>3. \A u, v, w \in Seq(TokB) : (u \o v) \o w = u \o (v \o w)
        BY ConcatAssoc
      <3>4. (Spelled \o FlattenSeq(kept)) \o rest = Bytes(1, e)
        <4>1. (Spelled \o FlattenSeq(kept)) \o rest = Spelled \o (FlattenSeq(kept) \o rest)
          BY <1>5, <3>1, <3>2, <3>3
        <4> QED BY <1>3, <3>1, <4>1
      <3>5. Spelled \o FlattenSeq(kept) \in Seq(TokB)
        BY <1>5, <3>2, ConcatProperties
      <3>6. IsPrefix(Bytes(1, e), text)
        <4>1. 1 \in 1 .. End /\ e \in 1 .. End
          BY <1>3, <1>5
        <4> QED BY <1>3, <4>1, BytesJoin
      <3>7. IsPrefix(Spelled \o FlattenSeq(kept), text)
        <4> DEFINE u == Spelled \o FlattenSeq(kept)
        <4>1. u \in Seq(TokB) /\ IsPrefix(u \o rest, text)
          BY <3>4, <3>5, <3>6
        <4> HIDE DEF u
        <4>2. IsPrefix(u, text)
          BY <1>5, <3>1, <4>1, PrefixOfConcat
        <4> QED BY <4>2 DEF u
      <3>8. Spelled' = Spelled \o FlattenSeq(kept)
        BY <2>4, <2>5 DEF Spelled
      <3> QED BY <1>1, <3>7, <3>8
    <2>8. status' # "OK"
      BY <2>5
    <2>9. status' = "TRUNCATED" => cap' < Len(text') /\ Len(ids') = cap'
      <3> SUFFICES ASSUME status' = "TRUNCATED" PROVE cap < Len(text) /\ Len(ids \o kept) = cap
        BY <1>1, <2>5
      <3>1. stop > cap - Len(ids)
        BY <2>2, <2>5
      <3>2. Len(ids) + (stop - 1) <= cap /\ Len(ids \o kept) = Len(ids) + (stop - 1)
        BY <2>4
      <3>3. Len(ids) \in Nat /\ cap \in Nat /\ stop \in Nat
        BY <1>5, <2>2
      <3>4. Len(ids) + (stop - 1) = cap
        BY <3>1, <3>2, <3>3
      <3>5. stop <= Len(syms) /\ Len(ids) + Len(syms) < Len(text) + 1
        BY <1>3, <1>5, <2>2
      <3>6. Len(syms) \in Nat /\ Len(text) \in Nat
        BY <1>3, <1>5
      <3> QED BY <3>2, <3>3, <3>4, <3>5, <3>6
    <2>10. DoneInv'
      BY <2>5, <2>7, <2>8, <2>9 DEF DoneInv
    <2> QED BY <2>5, <2>6, <2>10 DEF TokInv, WorkInv, MergeInv
  <1> QED BY <1>8, <1>9

-----------------------------------------------------------------------------
(* The theorems.                                                           *)

(* The invariant holds in every state.                                     *)
THEOREM TokInductive == TokSpec => []TokInv
  <1>1. TokInv /\ [TokNext]_tokVars => TokInv'
    <2> SUFFICES ASSUME TokInv, [TokNext]_tokVars PROVE TokInv'
      OBVIOUS
    <2>1. CASE ScanByte
      BY <2>1, ScanByteInv
    <2>2. CASE EncodeSegment
      BY <2>2, EncodeSegmentInv
    <2>3. CASE \E mem \in BOOLEAN : StartPiece(mem)
      BY <2>3, StartPieceInv
    <2>4. CASE MergePass
      BY <2>4, MergePassInv
    <2>5. CASE EmitPiece
      BY <2>5, EmitPieceInv
    <2>6. CASE EndSegment
      BY <2>6, EndSegmentInv
    <2>7. CASE \E size \in Caps : Decode(size)
      BY <2>7, DecodeInv
    <2>8. CASE UNCHANGED tokVars
      BY <2>8, StutterInv
    <2> QED BY <2>1, <2>2, <2>3, <2>4, <2>5, <2>6, <2>7, <2>8 DEF TokNext
  <1> QED BY InitInv, <1>1, PTL DEF TokSpec

(* Every variable has its type, and no id is written past the buffer the   *)
(* caller of tok_encode gave.                                              *)
THEOREM TokTypeCorrect == TokSpec => []TokTypeOK
  <1>1. TokInv => TokTypeOK
    BY DEF TokInv, TypeInv, TokTypeOK
  <1> QED BY TokInductive, <1>1, PTL

(* A buffer of as many ids as the input has bytes is never too small, and  *)
(* one that was too small was filled (tokenizer.h on TOK_ERR_TRUNCATED).   *)
THEOREM BufferOfInputLength == TokSpec => []NeverTooSmall
  <1>1. TokInv => NeverTooSmall
    BY DEF TokInv, DoneInv, NeverTooSmall
  <1> QED BY TokInductive, <1>1, PTL

(* What tok_encode has written spells a prefix of the input at every       *)
(* moment, all of it on success, and tok_decode gives it back.             *)
THEOREM DecodingInverts == TokSpec => []RoundTrip
  <1>1. TokInv => RoundTrip
    <2> SUFFICES ASSUME TokInv PROVE RoundTrip
      OBVIOUS
    <2>0. TypeInv /\ WorkInv /\ DoneInv
      BY DEF TokInv
    <2>1. text \in Texts /\ End \in Nat /\ seg \in 1 .. End /\ p \in 1 .. End
      BY <2>0, TypeFacts DEF TypeInv
    <2>2. \A at \in 1 .. End : IsPrefix(Bytes(1, at), text)
      <3> SUFFICES ASSUME NEW at \in 1 .. End PROVE IsPrefix(Bytes(1, at), text)
        OBVIOUS
      <3>1. 1 \in 1 .. End /\ at \in 1 .. End
        BY <2>1
      <3> QED BY <2>1, <3>1, BytesJoin
    <2>3. IsPrefix(Spelled, text)
      <3>1. CASE pc = "scan"
        BY <2>0, <2>1, <2>2, <3>1 DEF WorkInv
      <3>2. CASE pc \in {"segment", "merge"}
        BY <2>0, <2>1, <2>2, <3>2 DEF WorkInv
      <3>3. CASE pc \in {"encoded", "decoded"}
        BY <2>0, <3>3 DEF DoneInv
      <3> QED BY <2>0, <3>1, <3>2, <3>3 DEF TypeInv
    <2> QED BY <2>0, <2>3 DEF DoneInv, RoundTrip
  <1> QED BY TokInductive, <1>1, PTL

(* Every piece pretok_next returns is the one the pattern cuts.            *)
THEOREM PiecesArePattern == TokSpec => []PiecesFollowPattern
  <1>1. TokInv => PiecesFollowPattern
    <2> SUFFICES ASSUME TokInv, pc = "segment", p < i PROVE PieceEnd(p, i) = PatternEnd(p, i)
      BY DEF PiecesFollowPattern
    <2>1. text \in Texts /\ i \in 1 .. End /\ p \in 1 .. i - 1
      BY TypeFacts DEF TokInv, TypeInv
    <2> QED BY <2>1, PieceEndIsPattern
  <1> QED BY TokInductive, <1>1, PTL

(* The symbols the merge loop ends with are those of merging the leftmost  *)
(* pair of the lowest rank, one pair at a time.                            *)
THEOREM MergingIsOneByOne == TokSpec => []MergedOneByOne
  <1>1. TokInv => MergedOneByOne
    <2> SUFFICES ASSUME TokInv, pc = "merge", Ranks(table.merges, syms) = {}
                 PROVE  syms = OneByOne(Singles(p, i))
      BY DEF MergedOneByOne, Singles
    <2>1. syms \in Seq(Symbols) /\ OneByOne(syms) = OneByOne(Singles(p, i))
      BY DEF TokInv, MergeInv
    <2>2. Len(syms) \in Nat
      BY <2>1, LenProperties
    <2>3. OneByOne(syms) = syms
      BY <2>2, OneByOneDone
    <2> QED BY <2>1, <2>3
  <1> QED BY TokInductive, <1>1, PTL
=============================================================================
