---------------------------- MODULE HarnessProofs ----------------------------
(***************************************************************************)
(* Proofs about the harness, for every set of commands, results files,     *)
(* builds and probe times, and any number of commands started.             *)
(***************************************************************************)
EXTENDS Harness, SequenceLemmas

-----------------------------------------------------------------------------
(* The documents a command makes.                                          *)

Fixtures == { c.fixture : c \in Commands } \cup {D3}

Records ==
  { r \in [config : Configurations, chunk : 1 .. MaxInvocations, place : Nat \ {0},
           build : Builds, prompt : Fixtures \cup {NoPrompt},
           applied : {0, 1}, valid : BOOLEAN] :
      \E c \in Commands : /\ r.place \in DOMAIN c.list /\ c.list[r.place] = r.config
                          /\ r.prompt = PromptOf(r.config, c.fixture) }

Constructions == UNION { [K -> Nat \ {0}] : K \in SUBSET { Key(c) : c \in Configurations } }

Documents ==
  [records : Seq(Records), order : Seq(Configurations), plan : Constructions,
   build : Builds, prompt : Fixtures, compared : SUBSET (Records \X Records)]

(* What the timed pass leaves: one build, the claimed order, one chunk.     *)
OneBuild(d)  == \A i \in DOMAIN d.records : d.records[i].build = d.build
InOrder(d)   == d.order = [i \in DOMAIN d.records |-> d.records[i].config]
OneChunk(d)  == \A i, j \in DOMAIN d.records : d.records[i].chunk = d.records[j].chunk

(* The records of a chunk in the order measured, from its first, once.      *)
Follows(r, s) == r.chunk = s.chunk /\ r.place = s.place - 1
InSequence(records) == \A i \in DOMAIN records :
  records[i].place = 1 \/ (i > 1 /\ Follows(records[i - 1], records[i]))
Apart(r, s) == r.chunk # s.chunk \/ r.place # s.place
Placed(d) == /\ InSequence(d.records)
             /\ \A i, j \in DOMAIN d.records : i # j => Apart(d.records[i], d.records[j])

(* What may be published.                                                   *)
Confirmed(d) == \A i \in DOMAIN d.records :
  LET k == Key(d.records[i].config)
  IN d.records[i].applied = 1 /\ (k \in DOMAIN d.plan => d.plan[k] = 1)
NoRepeats(d) == \A i, j \in DOMAIN d.records : i # j => d.records[i].config # d.records[j].config
LikePair(p, r) ==
  /\ p.config = r.config /\ p.prompt = r.prompt /\ p.valid /\ r.valid
  /\ Flags[p.build] = Flags[r.build]
LikeWithLike(d) == \A pair \in d.compared : LikePair(pair[1], pair[2])

Publishable(d) ==
  /\ d \in Documents
  /\ OneBuild(d) /\ InOrder(d) /\ Placed(d) /\ Confirmed(d) /\ LikeWithLike(d)
  /\ OneChunk(d) \/ NoRepeats(d)

-----------------------------------------------------------------------------
(* Keys.                                                                   *)

\* A key belongs to one configuration, path included: make_configuration_key
\* gives the cache path a key of its own.
LEMMA KeyDetermines ==
  ASSUME NEW a \in Configurations, NEW b \in Configurations, Key(a) = Key(b)
  PROVE  a = b
  <1>1. (a.path = "cache") = (b.path = "cache")
    <2>1. Len(Key(a)) = IF a.path = "cache" THEN 3 ELSE 2
      BY DEF Key
    <2>2. Len(Key(b)) = IF b.path = "cache" THEN 3 ELSE 2
      BY DEF Key
    <2> QED BY <2>1, <2>2
  <1>2. a.kind = b.kind /\ a.tokens = b.tokens
    <2>1. Key(a)[1] = a.kind /\ Key(a)[2] = a.tokens
      BY DEF Key
    <2>2. Key(b)[1] = b.kind /\ Key(b)[2] = b.tokens
      BY DEF Key
    <2> QED BY <2>1, <2>2
  <1>3. a.path = b.path
    BY <1>1, <1>2 DEF Configurations
  <1> QED BY <1>2, <1>3 DEF Configurations

\* A list whose keys are as many as its records names no configuration twice.
LEMMA KeysOnce ==
  ASSUME NEW records \in Seq(Records), ~ (Cardinality(Keys(records)) < Len(records))
  PROVE  \A i, j \in DOMAIN records : i # j => records[i].config # records[j].config
  <1> DEFINE S == 1 .. Len(records)
             f == [i \in S |-> Key(records[i].config)]
  <1>0. Len(records) \in Nat /\ DOMAIN records = S
    BY LenProperties
  <1>1. f \in Surjection(S, Keys(records))
    BY <1>0 DEF Surjection, Keys
  <1>2. IsFiniteSet(S) /\ Cardinality(S) = Len(records)
    BY <1>0, FS_Interval
  <1>3. /\ IsFiniteSet(Keys(records)) /\ Cardinality(Keys(records)) <= Cardinality(S)
        /\ Cardinality(Keys(records)) = Cardinality(S) <=> f \in Injection(S, Keys(records))
    <2> HIDE DEF f, S
    <2> QED BY <1>1, <1>2, FS_Surjection
  <1>4. Cardinality(Keys(records)) \in Nat
    BY <1>3, FS_CardinalityType
  <1>5. f \in Injection(S, Keys(records))
    BY <1>0, <1>2, <1>3, <1>4
  <1>6. \A i, j \in S : Key(records[i].config) = Key(records[j].config) => i = j
    BY <1>5 DEF Injection, IsInjective
  <1> QED BY <1>0, <1>6

-----------------------------------------------------------------------------
(* Confirmation.                                                           *)

\* What passes verify_repeat_confirmation was timed once per sample: a driver
\* reports 1 or 0, and select_construction never chooses 0.
LEMMA ConfirmedOnce ==
  ASSUME NEW records \in Seq(Records), NEW plan \in Constructions,
         ~ Unconfirmed(records, plan)
  PROVE  \A i \in DOMAIN records :
           LET k == Key(records[i].config)
           IN records[i].applied = 1 /\ (k \in DOMAIN plan => plan[k] = 1)
  <1> TAKE i \in DOMAIN records
  <1> DEFINE k == Key(records[i].config)
  <1>1. records[i].applied = IF k \in DOMAIN plan THEN plan[k] ELSE 1
    BY DEF Unconfirmed
  <1>2. records[i] \in Records /\ records[i].applied \in {0, 1}
    BY DEF Records
  <1>3. k \in DOMAIN plan => plan[k] \in Nat \ {0}
    BY DEF Constructions
  <1> QED BY <1>1, <1>2, <1>3

-----------------------------------------------------------------------------
(* The regression comparison.                                              *)

Slots == {Absent, Torn} \cup { Whole(d) : d \in { d \in Documents : Publishable(d) } }

\* A results file that is neither absent nor torn holds a document.
LEMMA WholeSlot ==
  ASSUME NEW s \in Slots, (s # Absent /\ s # Torn) \/ s.state = "whole"
  PROVE  /\ s.state = "whole" /\ s = Whole(s.doc)
         /\ s.doc \in Documents /\ Publishable(s.doc)
  BY DEF Slots, Absent, Torn, Whole

\* compare_regression puts side by side two valid records of one
\* configuration, one prompt set and like builds, when every record of the
\* document was measured by the build it names.
LEMMA ComparedIsLike ==
  ASSUME files \in [Files -> Slots], command \in Commands, ~ CompareTorn,
         NEW d \in Documents, OneBuild(d)
  PROVE  /\ Compared(d) \subseteq Records \X Records
         /\ \A pair \in Compared(d) : LikePair(pair[1], pair[2])
  <1> DEFINE prior == files[command.compare].doc
  <1>1. CASE command.compare = NoFile \/ files[command.compare] = Absent
    BY <1>1 DEF Compared
  <1>2. CASE ~ (command.compare = NoFile \/ files[command.compare] = Absent)
    <2>1. prior \in Documents /\ Publishable(prior)
      <3>1. command.compare \in Files
        BY <1>2, CommandAssumption
      <3>2. files[command.compare] \in Slots /\ files[command.compare] # Absent
            /\ files[command.compare] # Torn
        BY <1>2, <3>1 DEF CompareTorn
      <3> QED BY <3>2, WholeSlot
    <2> HIDE DEF prior
    <2>2. /\ prior.records \in Seq(Records) /\ d.records \in Seq(Records)
          /\ OneBuild(prior)
      BY <2>1 DEF Documents, Publishable
    <2>3. ASSUME NEW r \in ToSet(d.records), Key(r.config) \in Keys(prior.records)
          PROVE  /\ r \in Records /\ r.build = d.build
                 /\ Prior(prior.records, Key(r.config)) \in Records
                 /\ Prior(prior.records, Key(r.config)).config = r.config
                 /\ Prior(prior.records, Key(r.config)).build = prior.build
      <3>1. PICK j \in DOMAIN d.records : r = d.records[j]
        BY <2>2 DEF ToSet
      <3>2. r \in Records /\ r.build = d.build
        BY <2>2, <3>1 DEF OneBuild
      <3> DEFINE S == { i \in DOMAIN prior.records : Key(prior.records[i].config) = Key(r.config) }
                 n == Len(prior.records)
      <3>3. n \in Nat /\ DOMAIN prior.records = 1 .. n
        BY <2>2, LenProperties
      <3>4. S # {} /\ S \in SUBSET (0 .. n)
        BY <2>3, <3>3 DEF Keys
      <3>5. Max(S) \in S
        <4> HIDE DEF S, n
        <4> QED BY <3>3, <3>4, MaxProperties
      <3> DEFINE p == prior.records[Max(S)]
      <3>6. Prior(prior.records, Key(r.config)) = p
        BY DEF Prior
      <3>7. p \in Records /\ p.build = prior.build /\ Key(p.config) = Key(r.config)
        <4>1. Max(S) \in 1 .. n /\ Key(p.config) = Key(r.config)
          BY <3>3, <3>5
        <4> HIDE DEF S
        <4>2. p \in Records
          BY <2>2, <3>3, <4>1
        <4>3. p.build = prior.build
          BY <2>2, <3>3, <4>1 DEF OneBuild
        <4> QED BY <4>1, <4>2, <4>3
      <3>8. p.config = r.config
        <4>1. p.config \in Configurations /\ r.config \in Configurations
          BY <3>2, <3>7 DEF Records
        <4> QED BY <3>7, <4>1, KeyDetermines
      <3> QED BY <3>2, <3>6, <3>7, <3>8
    <2>4. ASSUME NEW pair \in Compared(d)
          PROVE  pair \in Records \X Records /\ LikePair(pair[1], pair[2])
      <3>1. PICK r \in ToSet(d.records) :
              /\ Key(r.config) \in Keys(prior.records)
              /\ pair = <<Prior(prior.records, Key(r.config)), r>>
              /\ pair[1].prompt = pair[2].prompt /\ pair[2].valid /\ pair[1].valid
              /\ Flags[prior.build] = Flags[d.build]
        BY <1>2 DEF Compared, prior
      <3> QED BY <2>3, <3>1 DEF LikePair
    <2> QED BY <2>4
  <1> QED BY <1>1, <1>2

-----------------------------------------------------------------------------
(* The union of the parts of a merge.                                      *)

\* The later part's choice of a construction is one of the parts' choices.
LEMMA UnionPlan ==
  ASSUME NEW parts \in Seq(Documents)
  PROVE  PlanOf(parts) \in Constructions
  <1> DEFINE D == UNION { DOMAIN parts[i].plan : i \in DOMAIN parts }
             holders(k) == { i \in DOMAIN parts : k \in DOMAIN parts[i].plan }
             keys == { Key(c) : c \in Configurations }
  <1>1. Len(parts) \in Nat /\ DOMAIN parts = 1 .. Len(parts)
    BY LenProperties
  <1>2. \A i \in DOMAIN parts : parts[i].plan \in Constructions
    <2>1. \A i \in DOMAIN parts : parts[i] \in Documents
      BY <1>1
    <2> QED BY <2>1 DEF Documents
  <1>3. ASSUME NEW k \in D
        PROVE  /\ k \in keys
               /\ parts[Max(holders(k))].plan[k] \in Nat \ {0}
    <2>1. holders(k) # {} /\ holders(k) \in SUBSET (0 .. Len(parts))
      BY <1>1
    <2>2. Max(holders(k)) \in holders(k)
      <3> HIDE DEF holders
      <3> QED BY <1>1, <2>1, MaxProperties
    <2>3. Max(holders(k)) \in DOMAIN parts /\ k \in DOMAIN parts[Max(holders(k))].plan
      BY <2>2
    <2> HIDE DEF holders
    <2> DEFINE plan == parts[Max(holders(k))].plan
    <2>4. plan \in Constructions /\ k \in DOMAIN plan
      BY <1>2, <2>3
    <2> HIDE DEF plan
    <2>5. k \in keys /\ plan[k] \in Nat \ {0}
      BY <2>4 DEF Constructions
    <2> QED BY <2>5 DEF plan
  <1>4. PlanOf(parts) = [k \in D |-> parts[Max(holders(k))].plan[k]]
    BY DEF PlanOf
  <1> HIDE DEF D, holders
  <1>5. D \in SUBSET keys /\ PlanOf(parts) \in [D -> Nat \ {0}]
    BY <1>3, <1>4
  <1> QED BY <1>5 DEF Constructions

\* merge_parts of parts that may be published and name one build: the union
\* is a document, of that build, in the order it claims.
LEMMA UnionIsMeasured ==
  ASSUME NEW parts \in Seq({ d \in Documents : Publishable(d) }), parts # <<>>,
         ~ Disagree(parts)
  PROVE  /\ UnionOf(parts) \in Documents
         /\ OneBuild(UnionOf(parts)) /\ InOrder(UnionOf(parts))
  <1> DEFINE n  == Len(parts)
             ss == [i \in DOMAIN parts |-> parts[i].records]
             tt == [i \in DOMAIN parts |-> parts[i].order]
             b  == parts[1].build
             OfBuild == { r \in Records : r.build = b }
             Named == { pair \in Records \X Configurations : pair[2] = pair[1].config }
  <1>1. n \in Nat \ {0} /\ DOMAIN parts = 1 .. n
    BY EmptySeq, LenProperties
  <1>2. \A p \in 1 .. n : parts[p] \in Documents /\ Publishable(parts[p]) /\ parts[p].build = b
    BY <1>1 DEF Disagree
  <1>3. \A p \in 1 .. n :
          /\ parts[p].records \in Seq(OfBuild) /\ parts[p].order \in Seq(Configurations)
          /\ Len(parts[p].order) = Len(parts[p].records)
          /\ \A i \in 1 .. Len(parts[p].records) :
               <<parts[p].records[i], parts[p].order[i]>> \in Named
    <2> SUFFICES ASSUME NEW p \in 1 .. n
                 PROVE /\ parts[p].records \in Seq(OfBuild) /\ parts[p].order \in Seq(Configurations)
                       /\ Len(parts[p].order) = Len(parts[p].records)
                       /\ \A i \in 1 .. Len(parts[p].records) :
                            <<parts[p].records[i], parts[p].order[i]>> \in Named
      OBVIOUS
    <2> DEFINE rs == parts[p].records
               os == parts[p].order
    <2>1. /\ rs \in Seq(Records) /\ os \in Seq(Configurations)
          /\ \A i \in DOMAIN rs : rs[i].build = b
          /\ os = [i \in DOMAIN rs |-> rs[i].config]
      BY <1>2 DEF Documents, Publishable, OneBuild, InOrder
    <2> HIDE DEF rs, os
    <2>2. Len(rs) \in Nat /\ DOMAIN rs = 1 .. Len(rs)
      BY <2>1, LenProperties
    <2>3. Len(os) = Len(rs) /\ \A i \in 1 .. Len(rs) : os[i] = rs[i].config
      BY <2>1, <2>2
    <2>4. \A i \in 1 .. Len(rs) : rs[i] \in OfBuild /\ os[i] \in Configurations
      BY <2>1, <2>2, <2>3
    <2>5. rs \in Seq(OfBuild)
      BY <2>1, <2>2, <2>4, SeqOfElements
    <2>6. \A i \in 1 .. Len(rs) : <<rs[i], os[i]>> \in Named
      BY <2>3, <2>4
    <2> QED BY <2>1, <2>3, <2>5, <2>6 DEF rs, os
  <1>4. /\ ss \in Seq(Seq(OfBuild)) /\ tt \in Seq(Seq(Configurations))
        /\ Len(ss) = n /\ Len(tt) = n
        /\ \A p \in 1 .. n : ss[p] = parts[p].records /\ tt[p] = parts[p].order
    <2>1. /\ ss = [p \in 1 .. n |-> parts[p].records] /\ tt = [p \in 1 .. n |-> parts[p].order]
          /\ \A p \in 1 .. n : ss[p] = parts[p].records /\ tt[p] = parts[p].order
      BY <1>1
    <2> HIDE DEF ss, tt, OfBuild
    <2>2. ss \in [1 .. n -> Seq(OfBuild)] /\ tt \in [1 .. n -> Seq(Configurations)]
      BY <1>3, <2>1
    <2>3. ss \in Seq(Seq(OfBuild)) /\ tt \in Seq(Seq(Configurations))
      BY <1>1, <2>2, FunctionIsSeq, Zenon
    <2> QED BY <1>1, <2>1, <2>2, <2>3
  <1>5. /\ UnionOf(parts).records = FlattenSeq(ss) /\ UnionOf(parts).order = FlattenSeq(tt)
        /\ UnionOf(parts) = [records |-> FlattenSeq(ss), order |-> FlattenSeq(tt),
                             plan |-> PlanOf(parts), build |-> b,
                             prompt |-> parts[1].prompt, compared |-> {}]
        /\ UnionOf(parts).build = b
    BY DEF UnionOf
  <1> HIDE DEF ss, tt, Named, OfBuild
  <1>6. FlattenSeq(ss) \in Seq(OfBuild) /\ FlattenSeq(tt) \in Seq(Configurations)
    BY <1>4, FlattenSeqType
  <1>7. /\ Len(FlattenSeq(tt)) = Len(FlattenSeq(ss))
        /\ \A i \in 1 .. Len(FlattenSeq(ss)) : <<FlattenSeq(ss)[i], FlattenSeq(tt)[i]>> \in Named
    <2>1. \A p \in 1 .. Len(ss) :
            /\ Len(tt[p]) = Len(ss[p])
            /\ \A i \in 1 .. Len(ss[p]) : <<ss[p][i], tt[p][i]>> \in Named
      BY <1>3, <1>4
    <2> QED BY <1>4, <2>1, FlattenSeqPairs
  <1> DEFINE rs == FlattenSeq(ss)
             os == FlattenSeq(tt)
  <1> HIDE DEF rs, os
  <1>8. /\ Len(rs) \in Nat /\ DOMAIN rs = 1 .. Len(rs) /\ DOMAIN os = 1 .. Len(rs)
        /\ rs \in Seq(OfBuild) /\ os \in Seq(Configurations)
        /\ \A i \in 1 .. Len(rs) : os[i] = rs[i].config /\ rs[i] \in Records /\ rs[i].build = b
    <2>1. rs \in Seq(OfBuild) /\ os \in Seq(Configurations) /\ Len(os) = Len(rs)
          /\ \A i \in 1 .. Len(rs) : <<rs[i], os[i]>> \in Named
      BY <1>6, <1>7 DEF rs, os
    <2>2. /\ Len(rs) \in Nat /\ DOMAIN rs = 1 .. Len(rs) /\ DOMAIN os = 1 .. Len(rs)
          /\ \A i \in 1 .. Len(rs) : rs[i] \in OfBuild
      BY <2>1
    <2>3. \A i \in 1 .. Len(rs) : rs[i] \in Records /\ rs[i].build = b
      BY <2>2 DEF OfBuild
    <2>4. \A i \in 1 .. Len(rs) : os[i] = rs[i].config
      BY <2>1 DEF Named
    <2> QED BY <2>1, <2>2, <2>3, <2>4
  <1>9. os = [i \in DOMAIN rs |-> rs[i].config]
    <2>1. os = [i \in DOMAIN os |-> os[i]]
      BY <1>8
    <2> QED BY <1>8, <2>1
  <1>10. rs \in Seq(Records)
    BY <1>8, SeqOfElements
  <1>11. parts[1] \in Documents /\ b \in Builds /\ parts[1].prompt \in Fixtures
    BY <1>1, <1>2 DEF Documents
  <1>12. PlanOf(parts) \in Constructions
    <2>1. parts \in Seq(Documents)
      BY <1>1, <1>2, SeqOfElements
    <2> QED BY <2>1, UnionPlan
  <1>13. UnionOf(parts) \in Documents
    BY <1>5, <1>8, <1>10, <1>11, <1>12 DEF Documents, rs, os
  <1>14. OneBuild(UnionOf(parts)) /\ InOrder(UnionOf(parts))
    BY <1>5, <1>8, <1>9 DEF OneBuild, InOrder, rs, os
  <1> QED BY <1>13, <1>14

\* The union has the parts' records and no others, those of a chunk still one
\* after another.
LEMMA UnionInSequence ==
  ASSUME NEW parts \in Seq({ d \in Documents : Publishable(d) }), NEW R,
         \A p \in DOMAIN parts : ToSet(parts[p].records) \subseteq R
  PROVE  /\ ToSet(UnionOf(parts).records) \subseteq R
         /\ InSequence(UnionOf(parts).records)
  <1> DEFINE P  == { s \in Seq(R) : InSequence(s) }
             ss == [i \in DOMAIN parts |-> parts[i].records]
  <1>1. <<>> \in P
    BY EmptySeq DEF InSequence
  <1>2. ASSUME NEW s \in P, NEW t \in P PROVE s \o t \in P
    <2>1. /\ s \in Seq(R) /\ t \in Seq(R) /\ InSequence(s) /\ InSequence(t)
          /\ Len(s) \in Nat /\ Len(t) \in Nat
          /\ DOMAIN s = 1 .. Len(s) /\ DOMAIN t = 1 .. Len(t)
      BY LenProperties
    <2> DEFINE st == s \o t
    <2>2. /\ st \in Seq(R) /\ DOMAIN st = 1 .. Len(s) + Len(t)
          /\ \A i \in 1 .. Len(s) : st[i] = s[i]
          /\ \A i \in 1 .. Len(t) : st[Len(s) + i] = t[i]
      BY <2>1
    <2> HIDE DEF st
    <2>3. ASSUME NEW i \in DOMAIN st
          PROVE  st[i].place = 1 \/ (i > 1 /\ Follows(st[i - 1], st[i]))
      <3>1. CASE i <= Len(s)
        <4>1. i \in 1 .. Len(s) /\ st[i] = s[i] /\ (i > 1 => st[i - 1] = s[i - 1])
          BY <2>1, <2>2, <3>1
        <4> QED BY <2>1, <4>1 DEF InSequence
      <3>2. CASE ~ (i <= Len(s))
        <4> DEFINE k == i - Len(s)
        <4>1. k \in 1 .. Len(t) /\ Len(s) + k = i /\ Len(s) + (k - 1) = i - 1
          BY <2>1, <2>2, <3>2
        <4>2. (k > 1 => i > 1) /\ (k > 1 => k - 1 \in 1 .. Len(t))
          BY <2>1, <4>1
        <4> HIDE DEF k
        <4>3. st[i] = t[k] /\ (k > 1 => st[i - 1] = t[k - 1])
          BY <2>2, <4>1, <4>2
        <4>4. t[k].place = 1 \/ (k > 1 /\ Follows(t[k - 1], t[k]))
          BY <2>1, <4>1 DEF InSequence
        <4> QED BY <4>2, <4>3, <4>4
      <3> QED BY <3>1, <3>2
    <2>4. InSequence(st)
      BY <2>3 DEF InSequence
    <2> QED BY <2>2, <2>4 DEF st
  <1>3. Len(parts) \in Nat /\ DOMAIN parts = 1 .. Len(parts)
    BY LenProperties
  <1>4. ASSUME NEW p \in 1 .. Len(parts) PROVE parts[p].records \in P
    <2> DEFINE rs == parts[p].records
    <2>0. parts[p] \in Documents /\ Publishable(parts[p])
      BY <1>3
    <2>1. rs \in Seq(Records) /\ InSequence(rs) /\ ToSet(rs) \subseteq R
      BY <1>3, <2>0 DEF Documents, Publishable, Placed
    <2> HIDE DEF rs
    <2>2. Len(rs) \in Nat /\ \A i \in 1 .. Len(rs) : rs[i] \in R
      BY <2>1, LenProperties DEF ToSet
    <2>3. rs \in Seq(R)
      BY <2>1, <2>2, SeqOfElements
    <2> QED BY <2>1, <2>3 DEF rs
  <1>5. P \in SUBSET Seq(R)
    OBVIOUS
  <1>6. UnionOf(parts).records = FlattenSeq(ss)
    BY DEF UnionOf
  <1>7. ss \in [1 .. Len(parts) -> P]
    <2> HIDE DEF P
    <2> QED BY <1>3, <1>4
  <1> HIDE DEF P, ss
  <1>8. ss \in Seq(P)
    BY <1>3, <1>7, FunctionIsSeq, Zenon
  <1>9. FlattenSeq(ss) \in P
    BY <1>1, <1>2, <1>5, <1>8, FlattenClosed
  <1>10. UnionOf(parts).records \in Seq(R) /\ InSequence(UnionOf(parts).records)
    BY <1>6, <1>9 DEF P
  <1>11. ToSet(UnionOf(parts).records) \subseteq R
    BY <1>10, LenProperties DEF ToSet
  <1> QED BY <1>10, <1>11

-----------------------------------------------------------------------------
(* The inductive invariant: what the document is at each stage, that only   *)
(* write_results has the files differ from those the command found, and     *)
(* that a place in a chunk names one configuration in every document.       *)

Stages == {"idle", "preflight", "probe", "timed", "report", "open", "write", "merge"}

TypeInv ==
  /\ build \in Builds
  /\ files \in [Files -> Slots]
  /\ stage \in Stages
  /\ IF stage = "idle" THEN command = NoCommand ELSE command \in Commands
  /\ stage = "merge" => command.verb = "merge"
  /\ doc \in Documents
  /\ chunk \in 0 .. MaxInvocations /\ (stage # "idle" => chunk # 0)
  /\ status \in 0 .. 5 \cup {Killed}

DocumentInv ==
  /\ stage = "report" => OneBuild(doc) /\ InOrder(doc) /\ OneChunk(doc) /\ Placed(doc)
  /\ stage \in {"open", "write"} => Publishable(doc)

FilesInv == stage # "write" => files = before

(* The records on disk, and those of the document being made.               *)
OnDisk == UNION { ToSet(files[f].doc.records) : f \in { f \in Files : files[f].state = "whole" } }
InHand == IF stage \in {"report", "open", "write"} THEN ToSet(doc.records) ELSE {}
Measured == OnDisk \cup InHand

(* The chunk of the command under way is new until its timed pass.          *)
MeasuredInv ==
  /\ \A r, s \in Measured : Apart(r, s) \/ r.config = s.config
  /\ \A r \in Measured :
       r.chunk <= chunk /\ (stage \in {"preflight", "probe", "timed"} => r.chunk < chunk)

HarnessInv == TypeInv /\ DocumentInv /\ FilesInv /\ MeasuredInv

\* Every record there is a record.
LEMMA MeasuredRecords == TypeInv => Measured \subseteq Records
  <1> SUFFICES ASSUME TypeInv PROVE Measured \subseteq Records
    OBVIOUS
  <1>1. ASSUME NEW d \in Documents PROVE ToSet(d.records) \subseteq Records
    <2>1. d.records \in Seq(Records)
      BY DEF Documents
    <2> QED BY <2>1, LenProperties DEF ToSet
  <1>2. ASSUME NEW f \in Files, files[f].state = "whole" PROVE files[f].doc \in Documents
    BY <1>2, WholeSlot DEF TypeInv
  <1> QED BY <1>1, <1>2 DEF Measured, OnDisk, InHand, TypeInv

\* A step that adds no record and takes no chunk number back keeps MeasuredInv,
\* when a command that has not measured yet has a number of its own.
LEMMA MeasuredKept ==
  ASSUME TypeInv, MeasuredInv, Measured' \subseteq Measured,
         chunk' \in Nat, chunk <= chunk',
         stage' \in {"preflight", "probe", "timed"} =>
           stage \in {"preflight", "probe", "timed"} \/ chunk < chunk'
  PROVE  MeasuredInv'
  <1>1. chunk \in Int /\ \A r \in Measured : r.chunk \in Int
    BY MeasuredRecords DEF TypeInv, Records
  <1>2. ASSUME NEW r \in Measured'
        PROVE  r.chunk <= chunk' /\ (stage' \in {"preflight", "probe", "timed"} => r.chunk < chunk')
    <2>1. r \in Measured /\ r.chunk <= chunk
          /\ (stage \in {"preflight", "probe", "timed"} => r.chunk < chunk)
      BY <1>2 DEF MeasuredInv
    <2> QED BY <1>1, <2>1
  <1> QED BY <1>2 DEF MeasuredInv

\* A document without records, as a command starts with, is a document.
LEMMA NoDocIsDocument == NoDoc \in Documents
  <1>1. <<>> \in Seq(Records) /\ <<>> \in Seq(Configurations)
    BY EmptySeq
  <1>2. <<>> \in [{} -> Nat \ {0}]
    OBVIOUS
  <1>3. <<>> \in Constructions
    BY <1>2 DEF Constructions
  <1>4. 1 \in Builds
    BY HarnessAssumption DEF Builds
  <1> QED BY <1>1, <1>3, <1>4 DEF NoDoc, Documents, Fixtures

LEMMA HarnessInit == Init => HarnessInv
  <1> SUFFICES ASSUME Init PROVE HarnessInv
    OBVIOUS
  <1>1. files \in [Files -> Slots]
    BY DEF Init, Slots
  <1>2. 1 \in Builds
    BY HarnessAssumption DEF Builds
  <1>3. 0 \in 0 .. MaxInvocations
    BY HarnessAssumption
  <1>4. MeasuredInv
    BY DEF Init, MeasuredInv, Measured, OnDisk, InHand, Absent
  <1> QED BY <1>1, <1>2, <1>3, <1>4, NoDocIsDocument
      DEF Init, HarnessInv, TypeInv, DocumentInv, FilesInv, Stages, Killed

\* main returning: nothing is left of the command but the files and the status.
LEMMA ReturnStep ==
  ASSUME HarnessInv, NEW code \in 0 .. 5 \cup {Killed}, Return(code),
         files' \in [Files -> Slots], OnDisk' \subseteq Measured
  PROVE  HarnessInv'
  <1>1. TypeInv' /\ DocumentInv' /\ FilesInv'
    BY NoDocIsDocument
       DEF Return, HarnessInv, TypeInv, DocumentInv, FilesInv, Stages
  <1>2. stage' = "idle" /\ chunk' = chunk /\ chunk \in Nat
    BY DEF Return, HarnessInv, TypeInv
  <1>3. Measured' = OnDisk'
    BY <1>2 DEF Measured, InHand
  <1>4. MeasuredInv'
    BY <1>2, <1>3, MeasuredKept DEF HarnessInv
  <1> QED BY <1>1, <1>4 DEF HarnessInv

\* Every way out that writes nothing.
LEMMA LeaveStep ==
  ASSUME HarnessInv, NEW code \in 0 .. 5 \cup {Killed}, Leave(code)
  PROVE  HarnessInv'
  <1>1. OnDisk' = OnDisk
    BY DEF Leave, OnDisk
  <1>2. OnDisk' \subseteq Measured
    BY <1>1 DEF Measured
  <1> QED BY <1>2, ReturnStep DEF Leave, HarnessInv, TypeInv

\* Going on, before anything is written, with a document of the next stage.
LEMMA ContinueStep ==
  ASSUME HarnessInv, stage \notin {"idle", "write"},
         NEW next \in Stages \ {"idle", "merge"}, NEW d \in Documents, Continue(next, d),
         next = "report" => OneBuild(d) /\ InOrder(d) /\ OneChunk(d) /\ Placed(d),
         next \in {"open", "write"} => Publishable(d), MeasuredInv'
  PROVE  HarnessInv'
  <1>1. TypeInv'
    BY DEF Continue, HarnessInv, TypeInv, Stages
  <1>2. DocumentInv'
    BY DEF Continue, HarnessInv, DocumentInv, OneBuild, InOrder, OneChunk, Publishable, Placed
  <1>3. FilesInv'
    BY DEF Continue, HarnessInv, FilesInv
  <1> QED BY <1>1, <1>2, <1>3 DEF HarnessInv

-----------------------------------------------------------------------------
(* The actions.                                                            *)

\* Going on with no record that was not there.
LEMMA ContinueMeasured ==
  ASSUME HarnessInv, NEW next \in Stages, NEW d, Continue(next, d),
         next \in {"report", "open", "write"} => ToSet(d.records) \subseteq Measured,
         next \in {"preflight", "probe", "timed"} => stage \in {"preflight", "probe", "timed"}
  PROVE  MeasuredInv'
  <1>1. OnDisk' = OnDisk
    BY DEF Continue, OnDisk
  <1>2. Measured' \subseteq Measured
    <2>1. InHand' \subseteq Measured
      BY DEF Continue, InHand
    <2> QED BY <1>1, <2>1 DEF Measured
  <1>3. chunk' = chunk /\ chunk \in Nat /\ stage' = next
    BY DEF Continue, HarnessInv, TypeInv
  <1> QED BY <1>2, <1>3, MeasuredKept DEF HarnessInv

\* A step of nobody's: the documents stay.
LEMMA RestStep ==
  ASSUME HarnessInv, UNCHANGED <<files, stage, command, doc, chunk, status, before>>,
         build' \in Builds
  PROVE  HarnessInv'
  <1>1. TypeInv' /\ DocumentInv' /\ FilesInv'
    BY DEF HarnessInv, TypeInv, DocumentInv, FilesInv,
           Publishable, OneBuild, InOrder, OneChunk, Placed
  <1>2. MeasuredInv'
    BY DEF HarnessInv, MeasuredInv, Measured, OnDisk, InHand
  <1> QED BY <1>1, <1>2 DEF HarnessInv

LEMMA RebuildStep == HarnessInv /\ Rebuild => HarnessInv'
  BY RestStep DEF Rebuild, Builds

LEMMA KillStep == HarnessInv /\ Kill => HarnessInv'
  BY LeaveStep DEF Kill

LEMMA StartStep == HarnessInv /\ (RefusePromptSet \/ Start) => HarnessInv'
  <1> SUFFICES ASSUME HarnessInv, RefusePromptSet \/ Start PROVE HarnessInv'
    OBVIOUS
  <1>1. chunk + 1 \in 0 .. MaxInvocations /\ chunk + 1 # 0
    BY HarnessAssumption DEF HarnessInv, TypeInv, RefusePromptSet, Start
  <1>0. MeasuredInv'
    <2>1. /\ stage = "idle" /\ chunk \in Nat /\ chunk' = chunk + 1
          /\ OnDisk' = OnDisk /\ stage' \in {"idle", "preflight", "merge"}
      BY DEF HarnessInv, TypeInv, RefusePromptSet, Start, OnDisk
    <2>2. Measured' \subseteq Measured
      BY <2>1 DEF Measured, InHand
    <2> QED BY <2>1, <2>2, MeasuredKept DEF HarnessInv
  <1>2. CASE RefusePromptSet
    BY <1>0, <1>1, <1>2 DEF HarnessInv, TypeInv, DocumentInv, FilesInv, RefusePromptSet,
       Publishable, OneBuild, InOrder, OneChunk, Placed
  <1>3. CASE Start
    <2>1. /\ stage = "idle" /\ command' \in Commands /\ stage' \in {"preflight", "merge"}
          /\ stage' = "merge" => command'.verb = "merge"
          /\ before' = files /\ files' = files /\ doc' = doc /\ build' = build
          /\ status' = status /\ chunk' = chunk + 1
      BY <1>3, CommandAssumption DEF Start
    <2> QED BY <1>0, <1>1, <2>1 DEF HarnessInv, TypeInv, DocumentInv, FilesInv, Stages
  <1> QED BY <1>2, <1>3

LEMMA PreflightStep ==
  HarnessInv /\ (PreflightRefuses \/ PreflightOnly \/ PreflightPasses) => HarnessInv'
  <1> SUFFICES ASSUME HarnessInv, PreflightRefuses \/ PreflightOnly \/ PreflightPasses
               PROVE  HarnessInv'
    OBVIOUS
  <1>1. CASE PreflightRefuses
    BY <1>1, LeaveStep DEF PreflightRefuses
  <1>2. CASE PreflightOnly
    BY <1>2, LeaveStep DEF PreflightOnly
  <1>3. CASE PreflightPasses
    <2>1. doc \in Documents
      BY DEF HarnessInv, TypeInv
    <2>2. MeasuredInv'
      BY <1>3, ContinueMeasured DEF PreflightPasses, Stages
    <2> QED BY <1>3, <2>1, <2>2, ContinueStep DEF PreflightPasses, Stages
  <1> QED BY <1>1, <1>2, <1>3

\* select_construction: a probe that took any time is given a factor of at
\* least 1.
LEMMA RepeatFactorType ==
  ASSUME NEW ms \in ProbeTimes, ms # 0
  PROVE  RepeatFactor(ms) \in Nat \ {0}
  <1>1. ms \in Nat \ {0} /\ Floor \in Nat \ {0}
    BY HarnessAssumption
  <1>2. CASE ms >= Floor
    BY <1>2 DEF RepeatFactor
  <1>3. CASE ~ (ms >= Floor)
    <2>1. Floor + ms - 1 \in Nat /\ Floor + ms - 1 >= ms
      BY <1>1
    <2>2. (Floor + ms - 1) \div ms \in Nat \ {0}
      BY <1>1, <2>1
    <2> QED BY <1>3, <2>2 DEF RepeatFactor
  <1> QED BY <1>2, <1>3

LEMMA ProbeStep == HarnessInv /\ (ProbeFails \/ Probe) => HarnessInv'
  <1> SUFFICES ASSUME HarnessInv, ProbeFails \/ Probe PROVE HarnessInv'
    OBVIOUS
  <1>1. CASE ProbeFails
    BY <1>1, LeaveStep DEF ProbeFails
  <1>2. CASE Probe
    <2>1. PICK ms \in [Probeable(command.list) -> ProbeTimes] :
            LET zero     == \E k \in DOMAIN ms : ms[k] = 0
                selected == [k \in DOMAIN ms |-> RepeatFactor(ms[k])]
                batched  == \E k \in DOMAIN ms : selected[k] > 1
            IN \/ zero /\ Leave(1)
               \/ ~zero /\ batched /\ Leave(5)
               \/ ~zero /\ ~batched /\ command.only = "probe" /\ Leave(0)
               \/ /\ ~zero /\ ~batched /\ command.only = "all"
                  /\ Continue("timed", [doc EXCEPT !.plan = selected])
      BY <1>2 DEF Probe
    <2> DEFINE selected == [k \in DOMAIN ms |-> RepeatFactor(ms[k])]
    <2>2. CASE Leave(0) \/ Leave(1) \/ Leave(5)
      BY <2>2, LeaveStep
    <2>3. CASE /\ ~ \E k \in DOMAIN ms : ms[k] = 0
               /\ Continue("timed", [doc EXCEPT !.plan = selected])
      <3>1. stage = "probe" /\ command \in Commands /\ doc \in Documents
        BY <1>2 DEF Probe, HarnessInv, TypeInv
      <3>2. DOMAIN ms \in SUBSET { Key(c) : c \in Configurations }
        <4>1. \A c \in ToSet(command.list) : c \in Configurations
          BY <3>1, CommandAssumption DEF ToSet
        <4> QED BY <4>1 DEF Probeable
      <3>3. selected \in [DOMAIN ms -> Nat \ {0}]
        BY <2>3, RepeatFactorType
      <3> HIDE DEF selected
      <3>4. selected \in Constructions
        BY <3>2, <3>3 DEF Constructions
      <3>5. [doc EXCEPT !.plan = selected] \in Documents
        BY <3>1, <3>4 DEF Documents
      <3>6. MeasuredInv'
        BY <2>3, <3>1, ContinueMeasured DEF Stages
      <3> QED BY <2>3, <3>1, <3>5, <3>6, ContinueStep DEF Stages
    <2> QED BY <2>1, <2>2, <2>3
  <1> QED BY <1>1, <1>2

\* The timed pass makes one record per configuration, of the driver on disk.
LEMMA TimedStep == HarnessInv /\ (TimedPassFails \/ TimedPass) => HarnessInv'
  <1> SUFFICES ASSUME HarnessInv, TimedPassFails \/ TimedPass PROVE HarnessInv'
    OBVIOUS
  <1>1. CASE TimedPassFails
    BY <1>1, LeaveStep DEF TimedPassFails
  <1>2. CASE TimedPass
    <2> DEFINE list == command.list
               Rec(applied, valid, i) ==
                 [config |-> list[i], chunk |-> chunk, place |-> i, build |-> build,
                  applied |-> applied[i], valid |-> valid[i],
                  prompt |-> PromptOf(list[i], command.fixture)]
               Recs(applied, valid) == [i \in DOMAIN list |-> Rec(applied, valid, i)]
    <2>1. PICK applied \in [DOMAIN list -> {0, 1}], valid \in [DOMAIN list -> BOOLEAN] :
            Continue("report", [doc EXCEPT !.records = Recs(applied, valid), !.order = list,
                                           !.build = build, !.prompt = command.fixture])
      BY <1>2 DEF TimedPass
    <2> DEFINE rs == Recs(applied, valid)
               d  == [doc EXCEPT !.records = rs, !.order = list,
                                 !.build = build, !.prompt = command.fixture]
    <2>2. /\ stage = "timed" /\ command \in Commands /\ doc \in Documents
          /\ build \in Builds /\ chunk \in 1 .. MaxInvocations
      <3>1. stage = "timed"
        BY <1>2 DEF TimedPass
      <3>2. chunk \in 0 .. MaxInvocations /\ chunk # 0 /\ MaxInvocations \in Nat
        BY <3>1, HarnessAssumption DEF HarnessInv, TypeInv
      <3>3. chunk \in 1 .. MaxInvocations
        BY <3>2
      <3> QED BY <3>1, <3>3 DEF HarnessInv, TypeInv
    <2>3. /\ list \in Seq(Configurations) /\ Len(list) \in Nat /\ DOMAIN list = 1 .. Len(list)
          /\ command.fixture \in Fixtures
      BY <2>2, CommandAssumption DEF Fixtures
    <2>4. \A i \in 1 .. Len(list) : Rec(applied, valid, i) \in Records
      <3> SUFFICES ASSUME NEW i \in 1 .. Len(list) PROVE Rec(applied, valid, i) \in Records
        OBVIOUS
      <3>1. /\ list[i] \in Configurations
            /\ i \in DOMAIN command.list /\ command.list[i] = list[i] /\ i \in Nat \ {0}
        BY <2>3
      <3>2. applied[i] \in {0, 1} /\ valid[i] \in BOOLEAN
        BY <2>3
      <3>3. PromptOf(list[i], command.fixture) \in Fixtures \cup {NoPrompt}
        BY <2>3 DEF PromptOf
      <3> HIDE DEF list
      <3> QED BY <2>2, <2>3, <3>1, <3>2, <3>3 DEF Records
    <2>5. rs \in [1 .. Len(list) -> Records]
      BY <2>3, <2>4
    <2>6. rs \in Seq(Records)
      BY <2>3, <2>5, FunctionIsSeq, Zenon
    <2>7. /\ DOMAIN rs = DOMAIN list
          /\ \A i \in DOMAIN rs : /\ rs[i].config = list[i] /\ rs[i].build = build
                                  /\ rs[i].chunk = chunk /\ rs[i].place = i
      OBVIOUS
    <2> HIDE DEF list, Rec, Recs, rs
    <2>8. d \in Documents
      BY <2>2, <2>3, <2>6 DEF Documents
    <2>9. d.records = rs /\ d.order = list /\ d.build = build
      BY <2>2 DEF Documents
    <2>10. OneBuild(d) /\ OneChunk(d) /\ Placed(d)
      <3>1. \A i \in DOMAIN rs : i = 1 \/ (i > 1 /\ i - 1 \in DOMAIN rs)
        BY <2>3, <2>7
      <3> QED BY <2>7, <2>9, <3>1
          DEF OneBuild, OneChunk, Placed, InSequence, Follows, Apart
    <2>11. InOrder(d)
      <3>1. list = [i \in DOMAIN list |-> list[i]]
        BY <2>3
      <3> QED BY <2>7, <2>9, <3>1 DEF InOrder
    <2>12. Continue("report", d)
      BY <2>1 DEF rs
    <2> HIDE DEF d
    <2>13. MeasuredInv'
      <3>1. /\ OnDisk' = OnDisk /\ stage' = "report" /\ doc' = d /\ chunk' = chunk
        BY <2>12 DEF Continue, OnDisk
      <3>2. Measured' = OnDisk \cup ToSet(rs)
        BY <2>9, <3>1 DEF Measured, InHand
      <3>3. \A r \in OnDisk : r.chunk \in Int /\ r.chunk < chunk
        BY <2>2, MeasuredRecords DEF HarnessInv, TypeInv, MeasuredInv, Measured, Records
      <3>4. ASSUME NEW r \in ToSet(rs) PROVE \E i \in DOMAIN rs : r = rs[i]
        BY DEF ToSet
      <3>5. \A r \in ToSet(rs) : r.chunk = chunk
        BY <2>7, <3>4
      <3>6. \A r, s \in ToSet(rs) : r.place = s.place => r.config = s.config
        BY <2>7, <3>4
      <3>7. ASSUME NEW r \in Measured' PROVE r.chunk <= chunk
        BY <2>2, <3>2, <3>3, <3>5
      <3>8. ASSUME NEW r \in Measured', NEW s \in Measured'
            PROVE  Apart(r, s) \/ r.config = s.config
        <4>1. CASE r \in OnDisk /\ s \in OnDisk
          BY <4>1 DEF HarnessInv, MeasuredInv, Measured
        <4>2. CASE r \in ToSet(rs) /\ s \in ToSet(rs)
          BY <3>6, <4>2 DEF Apart
        <4>3. CASE (r \in OnDisk /\ s \in ToSet(rs)) \/ (r \in ToSet(rs) /\ s \in OnDisk)
          BY <2>2, <3>3, <3>5, <4>3 DEF Apart
        <4> QED BY <3>2, <4>1, <4>2, <4>3
      <3> QED BY <3>1, <3>7, <3>8 DEF MeasuredInv
    <2> QED BY <2>2, <2>8, <2>10, <2>11, <2>12, <2>13, ContinueStep DEF Stages
  <1> QED BY <1>1, <1>2

\* cmd_run after the timed pass: what goes on was confirmed and compared.
LEMMA ReportStep == HarnessInv /\ Report => HarnessInv'
  <1> SUFFICES ASSUME HarnessInv, Report PROVE HarnessInv'
    OBVIOUS
  <1>1. CASE Leave(4) \/ Leave(1)
    BY <1>1, LeaveStep
  <1> DEFINE d == [doc EXCEPT !.compared = Compared(doc)]
  <1>2. CASE /\ ~ Unconfirmed(doc.records, doc.plan) /\ ~ CompareTorn
             /\ Continue("open", d)
    <2>1. /\ stage = "report" /\ command \in Commands /\ doc \in Documents
          /\ files \in [Files -> Slots]
          /\ OneBuild(doc) /\ InOrder(doc) /\ OneChunk(doc) /\ Placed(doc)
      BY DEF Report, HarnessInv, TypeInv, DocumentInv
    <2>2. /\ Compared(doc) \subseteq Records \X Records
          /\ \A pair \in Compared(doc) : LikePair(pair[1], pair[2])
      BY <1>2, <2>1, ComparedIsLike
    <2>3. d \in Documents
      BY <2>1, <2>2 DEF Documents
    <2>4. /\ d.records = doc.records /\ d.order = doc.order /\ d.plan = doc.plan
          /\ d.build = doc.build /\ d.compared = Compared(doc)
      BY <2>1 DEF Documents
    <2> HIDE DEF d
    <2>5. Confirmed(d)
      <3>1. doc.records \in Seq(Records) /\ doc.plan \in Constructions
        BY <2>1 DEF Documents
      <3> QED BY <1>2, <2>4, <3>1, ConfirmedOnce DEF Confirmed
    <2>6. OneBuild(d) /\ InOrder(d) /\ OneChunk(d) /\ Placed(d) /\ LikeWithLike(d)
      BY <2>1, <2>2, <2>4 DEF OneBuild, InOrder, OneChunk, Placed, LikeWithLike
    <2>7. Publishable(d)
      BY <2>3, <2>5, <2>6 DEF Publishable
    <2>8. MeasuredInv'
      <3>1. ToSet(d.records) \subseteq Measured
        BY <2>1, <2>4 DEF Measured, InHand
      <3> QED BY <1>2, <3>1, ContinueMeasured DEF Stages
    <2> QED BY <1>2, <2>1, <2>3, <2>7, <2>8, ContinueStep DEF Stages
  <1> QED BY <1>1, <1>2 DEF Report

\* write_results: the file is torn, then holds the document.
LEMMA WriteStep == HarnessInv /\ (OpenOut \/ WriteOut) => HarnessInv'
  <1> SUFFICES ASSUME HarnessInv, OpenOut \/ WriteOut PROVE HarnessInv'
    OBVIOUS
  <1>1. CASE OpenOut
    <2>1. files' \in [Files -> Slots]
      BY <1>1 DEF OpenOut, HarnessInv, TypeInv, Slots
    <2>2. MeasuredInv'
      <3>1. /\ DOMAIN files = Files /\ files' = [files EXCEPT ![command.out] = Torn]
            /\ stage = "open" /\ stage' = "write" /\ doc' = doc
            /\ chunk' = chunk /\ chunk \in Nat
        BY <1>1 DEF OpenOut, HarnessInv, TypeInv
      <3>2. \A f \in Files : files'[f].state = "whole" => files'[f] = files[f]
        BY <3>1 DEF Torn
      <3>3. OnDisk' \subseteq OnDisk
        BY <3>2 DEF OnDisk
      <3>4. Measured' \subseteq Measured
        BY <3>1, <3>3 DEF Measured, InHand
      <3> QED BY <3>1, <3>4, MeasuredKept DEF HarnessInv
    <2> QED BY <1>1, <2>1, <2>2 DEF OpenOut, HarnessInv, TypeInv, DocumentInv, FilesInv, Stages,
            Publishable, OneBuild, InOrder, OneChunk, Placed, Confirmed, LikeWithLike, NoRepeats
  <1>2. CASE WriteOut
    <2>1. stage = "write" /\ doc \in Documents /\ Publishable(doc)
      BY <1>2 DEF WriteOut, HarnessInv, TypeInv, DocumentInv
    <2>2. Whole(doc) \in Slots
      BY <2>1 DEF Slots
    <2>3. files' \in [Files -> Slots]
      BY <1>2, <2>2 DEF WriteOut, HarnessInv, TypeInv
    <2>4. OnDisk' \subseteq Measured
      <3>1. DOMAIN files = Files /\ files' = [files EXCEPT ![command.out] = Whole(doc)]
        BY <1>2 DEF WriteOut, HarnessInv, TypeInv
      <3>2. \A f \in Files : files'[f] = files[f] \/ files'[f] = Whole(doc)
        BY <3>1
      <3>3. Whole(doc).doc = doc
        BY DEF Whole
      <3>4. ToSet(doc.records) \subseteq Measured /\ OnDisk \subseteq Measured
        BY <2>1 DEF Measured, InHand
      <3>5. ASSUME NEW f \in Files, files'[f].state = "whole"
            PROVE  ToSet(files'[f].doc.records) \subseteq Measured
        BY <3>2, <3>3, <3>4, <3>5 DEF OnDisk
      <3> QED BY <3>5 DEF OnDisk
    <2> QED BY <1>2, <2>3, <2>4, ReturnStep DEF WriteOut
  <1> QED BY <1>1, <1>2

\* cmd_merge: what goes on is of one build, in order, confirmed again under
\* the constructions of the union, and names no configuration twice.
LEMMA MergeStep == HarnessInv /\ (MergeUnreadable \/ Merge) => HarnessInv'
  <1> SUFFICES ASSUME HarnessInv, MergeUnreadable \/ Merge PROVE HarnessInv'
    OBVIOUS
  <1>1. CASE Leave(1) \/ Leave(2) \/ Leave(4)
    BY <1>1, LeaveStep
  <1> DEFINE u == UnionOf(Parts)
             d == [u EXCEPT !.compared = Compared(u)]
  <1>2. CASE /\ stage = "merge" /\ \A i \in DOMAIN command.parts : Part(i).state = "whole"
             /\ ~ Overlaps(Parts) /\ ~ Disagree(Parts)
             /\ ~ Unconfirmed(u.records, u.plan) /\ ~ CompareTorn
             /\ Continue("open", d)
    <2>1. /\ command \in Commands /\ command.verb = "merge" /\ files \in [Files -> Slots]
      BY <1>2 DEF HarnessInv, TypeInv
    <2>2. /\ command.parts \in Seq(Files) /\ command.parts # <<>>
          /\ Len(command.parts) \in Nat \ {0}
          /\ DOMAIN command.parts = 1 .. Len(command.parts)
      BY <2>1, CommandAssumption, EmptySeq
    <2>3. \A i \in 1 .. Len(command.parts) :
            Part(i).doc \in { x \in Documents : Publishable(x) }
      <3> TAKE i \in 1 .. Len(command.parts)
      <3>1. Part(i) \in Slots /\ Part(i).state = "whole"
        BY <1>2, <2>1, <2>2 DEF Part
      <3> QED BY <3>1, WholeSlot
    <2>4. /\ Parts \in Seq({ x \in Documents : Publishable(x) }) /\ Parts # <<>>
      <3>1. Parts \in [1 .. Len(command.parts) -> { x \in Documents : Publishable(x) }]
        BY <2>2, <2>3 DEF Parts
      <3>2. /\ Parts \in Seq({ x \in Documents : Publishable(x) })
            /\ Len(Parts) = Len(command.parts)
        BY <2>2, <3>1, FunctionIsSeq, Zenon
      <3>3. Len(Parts) # 0
        BY <2>2, <3>2
      <3> QED BY <3>2, <3>3
    <2>5. u \in Documents /\ OneBuild(u) /\ InOrder(u)
      BY <1>2, <2>4, UnionIsMeasured
    <2>6. ~ (Cardinality(Keys(u.records)) < Len(u.records))
      BY <1>2 DEF Overlaps, UnionOf
    <2>a. ToSet(u.records) \subseteq Measured /\ InSequence(u.records)
      <3>1. ASSUME NEW i \in 1 .. Len(command.parts)
            PROVE  ToSet(Part(i).doc.records) \subseteq Measured
        <4>1. command.parts[i] \in Files /\ files[command.parts[i]].state = "whole"
          BY <1>2, <2>2 DEF Part
        <4> QED BY <4>1 DEF Part, Measured, OnDisk
      <3>2. \A i \in DOMAIN Parts : ToSet(Parts[i].records) \subseteq Measured
        BY <2>2, <3>1 DEF Parts
      <3> QED BY <2>4, <3>2, UnionInSequence
    <2> HIDE DEF u
    <2>7. NoRepeats(u)
      <3>1. u.records \in Seq(Records)
        BY <2>5 DEF Documents
      <3> QED BY <2>6, <3>1, KeysOnce DEF NoRepeats
    <2>b. Placed(u)
      <3>1. \A i \in DOMAIN u.records : u.records[i] \in Measured
        BY <2>a DEF ToSet
      <3>2. \A i, j \in DOMAIN u.records : i # j => Apart(u.records[i], u.records[j])
        BY <2>7, <3>1 DEF NoRepeats, HarnessInv, MeasuredInv
      <3> QED BY <2>a, <3>2 DEF Placed
    <2>8. /\ Compared(u) \subseteq Records \X Records
          /\ \A pair \in Compared(u) : LikePair(pair[1], pair[2])
      BY <1>2, <2>1, <2>5, ComparedIsLike
    <2>9. d \in Documents
      BY <2>5, <2>8 DEF Documents
    <2>10. /\ d.records = u.records /\ d.order = u.order /\ d.plan = u.plan
           /\ d.build = u.build /\ d.compared = Compared(u)
      BY <2>5 DEF Documents
    <2> HIDE DEF d
    <2>11. Confirmed(d)
      <3>1. u.records \in Seq(Records) /\ u.plan \in Constructions
        BY <2>5 DEF Documents
      <3> QED BY <1>2, <2>10, <3>1, ConfirmedOnce DEF Confirmed
    <2>12. OneBuild(d) /\ InOrder(d) /\ Placed(d) /\ NoRepeats(d) /\ LikeWithLike(d)
      BY <2>5, <2>7, <2>8, <2>10, <2>b DEF OneBuild, InOrder, Placed, NoRepeats, LikeWithLike
    <2>13. Publishable(d)
      BY <2>9, <2>11, <2>12 DEF Publishable
    <2>14. MeasuredInv'
      BY <1>2, <2>10, <2>a, ContinueMeasured DEF Stages
    <2> QED BY <1>2, <2>9, <2>13, <2>14, ContinueStep DEF Stages
  <1> QED BY <1>1, <1>2 DEF MergeUnreadable, Merge

-----------------------------------------------------------------------------
(* The theorems.                                                           *)

LEMMA HarnessNext == HarnessInv /\ [Next]_vars => HarnessInv'
  <1> SUFFICES ASSUME HarnessInv, [Next]_vars PROVE HarnessInv'
    OBVIOUS
  <1>1. CASE UNCHANGED vars
    BY <1>1, RestStep DEF vars, HarnessInv, TypeInv
  <1>2. CASE Next
    BY <1>2, RebuildStep, KillStep, StartStep, PreflightStep, ProbeStep, TimedStep,
       ReportStep, WriteStep, MergeStep DEF Next
  <1> QED BY <1>1, <1>2

\* HarnessInv is an invariant: whatever is on disk, or about to be written, may
\* be published.
THEOREM HarnessInductive == Spec => []HarnessInv
  BY HarnessInit, HarnessNext, PTL DEF Spec

\* What the results files hold may be published.
LEMMA PublishedIsPublishable ==
  ASSUME HarnessInv, NEW d \in Published
  PROVE  d \in Documents /\ Publishable(d)
  BY WholeSlot DEF Published, HarnessInv, TypeInv

\* HarnessTypeOK: every document, the one being made and those on disk, holds
\* records of configurations that some command named, of builds there were,
\* and constructions with a factor of at least 1.
THEOREM HarnessTypeCorrect == Spec => []HarnessTypeOK
  <1>1. ASSUME NEW d \in Documents PROVE IsDocument(d)
    <2>1. \A r \in Records : IsRecord(r)
      BY DEF Records, IsRecord
    <2>2. /\ d.records \in Seq(Records) /\ d.build \in Builds
          /\ d.plan \in Constructions /\ d.compared \subseteq Records \X Records
      BY DEF Documents
    <2>3. \A i \in DOMAIN d.records : d.records[i] \in Records
      BY <2>2
    <2>4. \A k \in DOMAIN d.plan : d.plan[k] \in Nat \ {0}
      BY <2>2 DEF Constructions
    <2> QED BY <2>1, <2>2, <2>3, <2>4 DEF IsDocument
  <1>2. HarnessInv => HarnessTypeOK
    <2> SUFFICES ASSUME HarnessInv PROVE HarnessTypeOK
      OBVIOUS
    <2>1. \A f \in Files : files[f] \in {Absent, Torn} \/ IsDocument(files[f].doc)
      <3> TAKE f \in Files
      <3>1. files[f] \in Slots
        BY DEF HarnessInv, TypeInv
      <3> QED BY <1>1, <3>1, WholeSlot
    <2>2. (stage = "idle") = (command = NoCommand)
      <3>1. \A c \in Commands : c # NoCommand
        BY CommandAssumption, HarnessAssumption DEF NoCommand, MergeCommand
      <3> QED BY <3>1 DEF HarnessInv, TypeInv
    <2> QED BY <1>1, <2>1, <2>2 DEF HarnessInv, TypeInv, HarnessTypeOK, Stages
  <1> QED BY <1>2, HarnessInductive, PTL

\* PublishedIsConfirmed: no results file holds a record whose repeat factor
\* the driver did not confirm, whatever was merged and whenever it was killed.
THEOREM PublishedConfirmed == Spec => []PublishedIsConfirmed
  <1>1. HarnessInv => PublishedIsConfirmed
    BY PublishedIsPublishable DEF PublishedIsConfirmed, Publishable, Confirmed
  <1> QED BY <1>1, HarnessInductive, PTL

\* MergedOnce: a document of several chunks holds a configuration once.
THEOREM NoConfigurationMergedTwice == Spec => []MergedOnce
  <1>1. ASSUME NEW d \in Documents, OneChunk(d)
        PROVE  ~ (Cardinality({ d.records[i].chunk : i \in DOMAIN d.records }) > 1)
    <2> DEFINE C == { d.records[i].chunk : i \in DOMAIN d.records }
    <2>1. CASE C = {}
      <3>1. Cardinality(C) = 0
        BY <2>1, FS_EmptySet
      <3> QED BY <3>1
    <2>2. CASE C # {}
      <3>1. PICK c : C = {c}
        BY <1>1, <2>2 DEF OneChunk
      <3>2. Cardinality(C) = 1
        BY <3>1, FS_Singleton
      <3> QED BY <3>2
    <2> QED BY <2>1, <2>2
  <1>2. HarnessInv => MergedOnce
    BY <1>1, PublishedIsPublishable DEF MergedOnce, Publishable, NoRepeats
  <1> QED BY <1>2, HarnessInductive, PTL

\* OneMeasurement: every record was measured by the build the document names.
THEOREM OneBuildPerDocument == Spec => []OneMeasurement
  <1>1. HarnessInv => OneMeasurement
    BY PublishedIsPublishable DEF OneMeasurement, Publishable, OneBuild
  <1> QED BY <1>1, HarnessInductive, PTL

\* OrderIsMeasured: the order a document claims is that of its records, those
\* of a chunk as they were measured and none twice, through every merge of
\* merges. (Measurements of one place in a chunk are of one configuration,
\* and a merge refuses a configuration it has seen.)
THEOREM ClaimedOrderIsMeasured == Spec => []OrderIsMeasured
  <1>1. HarnessInv => OrderIsMeasured
    BY PublishedIsPublishable
       DEF OrderIsMeasured, Publishable, InOrder, Placed, InSequence, Follows, Apart
  <1> QED BY <1>1, HarnessInductive, PTL

\* ComparedLikeWithLike: a reported change is between two valid measurements
\* of one configuration, of one prompt set where the configuration has one,
\* and of like builds.
THEOREM ComparisonsAreAlike == Spec => []ComparedLikeWithLike
  <1>1. HarnessInv => ComparedLikeWithLike
    BY PublishedIsPublishable DEF ComparedLikeWithLike, Publishable, LikeWithLike, LikePair
  <1> QED BY <1>1, HarnessInductive, PTL

\* RefusalLeavesFiles: a command that refuses leaves every results file as it
\* was when it started.
THEOREM RefusalsWriteNothing == Spec => RefusalLeavesFiles
  <1> DEFINE A == stage # "idle" /\ stage' = "idle" /\ status' \in 2 .. 5 => files' = before
  <1>1. HarnessInv /\ [Next]_vars => [A]_vars
    <2> SUFFICES ASSUME HarnessInv, Next, stage # "idle", stage' = "idle", status' \in 2 .. 5
                 PROVE  files' = before
      BY DEF vars
    <2>1. stage # "write"
      BY DEF Next, Rebuild, Kill, RefusePromptSet, Start, PreflightRefuses, PreflightOnly,
             PreflightPasses, ProbeFails, Probe, TimedPassFails, TimedPass, Report, OpenOut,
             WriteOut, MergeUnreadable, Merge, Return, Leave, Continue, Killed
    <2>2. files' = files
      BY <2>1 DEF Next, Rebuild, Kill, RefusePromptSet, Start, PreflightRefuses, PreflightOnly,
             PreflightPasses, ProbeFails, Probe, TimedPassFails, TimedPass, Report, OpenOut,
             WriteOut, MergeUnreadable, Merge, Return, Leave, Continue
    <2> QED BY <2>1, <2>2 DEF HarnessInv, FilesInv
  <1> QED BY <1>1, HarnessInductive, PTL DEF Spec, RefusalLeavesFiles
=============================================================================
