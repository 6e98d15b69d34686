------------------------------ MODULE LoadProofs ------------------------------
(***************************************************************************)
(* The properties of ModelLoad, for every weight file, configuration and   *)
(* session, whichever of the calls fail.                                   *)
(*                                                                         *)
(* LoadInv accounts for every live object: what st_open holds at its stage *)
(* (ReaderHolds) and what the tool or the loader holds at its place        *)
(* (LoaderHolds).  A step of st_open moves only the reader's objects       *)
(* (ReaderMoves), so that the loader's account stands while a file is      *)
(* read; an exit gives back both accounts.                                 *)
(*                                                                         *)
(* TakenInv relates every buffer to the line of the inventory it was taken *)
(* by (TakenFrom).  A line is one of a table the tool was given, whatever  *)
(* that table is: so far nothing rests on how a header is parsed.          *)
(*                                                                         *)
(* The rest does.  The grammar cuts a header at its outermost commas; the  *)
(* scanner reads it from left to right.  What it accepts is one part of a  *)
(* row (Item), and what it reads after a comma makes the row one part      *)
(* longer (RowAppends): so a value, a shape, the members of a tensor, and  *)
(* with ReadingInv the entries of the whole header, are those of the       *)
(* grammar.  ListedInv carries the tables that were read to the inventory  *)
(* and from there to the buffers.                                          *)
(***************************************************************************)
EXTENDS ModelLoad, SequenceLemmas

-----------------------------------------------------------------------------
(* st_grow.                                                                *)

\* The capacity after making room.
LEMMA GrownRoom ==
  ASSUME NEW c \in Nat, NEW need \in Nat \ {0}
  PROVE  Grown(c, need) \in Nat /\ Grown(c, need) >= need
  <1>1. CASE need <= c
    BY <1>1 DEF Grown
  <1>2. CASE ~(need <= c)
    <2> DEFINE d == CHOOSE g : g = [k \in Nat |-> IF k >= need THEN k ELSE g[2 * k]]
               first == IF c = 0 THEN FirstCap ELSE 2 * c
    <2>1. d = [k \in Nat |-> IF k >= need THEN k ELSE d[2 * k]]
      BY DoublingExists
    <2>2. first \in Nat \ {0}
      BY ReaderAssumption
    <2>3. Grown(c, need) = d[first]
      BY <1>2 DEF Grown
    <2> HIDE DEF d, first
    <2>4. d[first] \in Nat /\ d[first] >= need
      BY <2>1, <2>2, DoublingReaches
    <2> QED BY <2>3, <2>4
  <1> QED BY <1>1, <1>2

-----------------------------------------------------------------------------
(* What the reader holds, and what a step of st_open does with it.         *)

\* The fields of an st_file, and the stages in which a header is scanned.
Fields == {"stage", "rc", "at", "table", "cap", "meta", "metaCap", "hasMeta"}
Scanning == {"header", "entry", "pair", "pairs end", "entries end"}

\* An st_file: no table outgrows its array, and there is no room without a pair.
IsStFile(f) ==
  /\ DOMAIN f = Fields /\ SomeSeq(f.table) /\ SomeSeq(f.meta)
  /\ f.cap \in Nat /\ f.metaCap \in Nat /\ Len(f.table) <= f.cap
  /\ f.metaCap > 0 => f.meta # <<>>

\* What st_open holds: nothing before fopen or after a failure, the header while it scans.
ReaderHolds(f) ==
  IF f.stage \in {"closed", "called"} THEN {}
  ELSE IF f.stage = "returned" THEN (IF f.rc = "OK" THEN Held(f) ELSE {})
  ELSE IF f.stage = "opened" THEN Held(f) ELSE Held(f) \cup HeaderText

\* The marks of the objects of a reader.
ReaderTags == {"st", "key", "value"}

\* A step of st_open: what it acquires and gives back is the reader's.
ReaderMoves ==
  \E got, gone :
    /\ Heap(got, gone) /\ \A o \in got : o[1] \in ReaderTags
    /\ gone \subseteq ReaderHolds(st) \cup got
    /\ (ReaderHolds(st) \cup got) \ gone = ReaderHolds(st')
    /\ IsStFile(st') /\ st'.stage \in {"opened", "returned"} \cup Scanning

\* They are the only ones a reader holds.
LEMMA HeldTags == ASSUME NEW f PROVE \A o \in Held(f) \cup HeaderText : o[1] \in ReaderTags
  BY DEF Held, HeaderText, ReaderTags

LEMMA HolderTags == ASSUME NEW f PROVE \A o \in ReaderHolds(f) : o[1] \in ReaderTags
  BY HeldTags DEF ReaderHolds

\* A file with more room and more pairs holds more.
LEMMA HeldGrows ==
  ASSUME NEW f, NEW g, f.cap > 0 => g.cap > 0, f.meta # <<>> => g.meta # <<>>,
         f.metaCap > 0 => f.meta # <<>>, DOMAIN f.meta \subseteq DOMAIN g.meta
  PROVE  Held(f) \subseteq Held(g)
  BY DEF Held

\* What a file holds depends on its arrays and its pairs only.
LEMMA HeldSame ==
  ASSUME NEW f, NEW g, f.cap > 0 <=> g.cap > 0, f.meta = g.meta,
         f.metaCap > 0 => f.meta # <<>>, g.metaCap > 0 => g.meta # <<>>
  PROVE  Held(f) = Held(g)
  <1>1. DOMAIN f.meta = DOMAIN g.meta /\ (f.meta # <<>> <=> g.meta # <<>>)
    OBVIOUS
  <1>2. Held(f) \subseteq Held(g)
    BY <1>1, HeldGrows
  <1>3. Held(g) \subseteq Held(f)
    BY <1>1, HeldGrows
  <1> QED BY <1>2, <1>3

\* A file that is not open.
LEMMA ClosedIsStFile ==
  ASSUME NEW s, NEW rc
  PROVE  /\ IsStFile(ClosedFile) /\ IsStFile([ClosedFile EXCEPT !.stage = s])
         /\ IsStFile([ClosedFile EXCEPT !.stage = s, !.rc = rc])
         /\ [ClosedFile EXCEPT !.stage = s, !.rc = rc].stage = s
         /\ [ClosedFile EXCEPT !.stage = s, !.rc = rc].rc = rc
         /\ [ClosedFile EXCEPT !.stage = s].stage = s /\ ClosedFile.stage = "closed"
  <1>1. SomeSeq(<<>>) /\ Len(<<>>) = 0
    BY EmptySomeSeq
  <1> QED BY <1>1 DEF ClosedFile, IsStFile, Fields

\* A step that fails gives back everything.
LEMMA GiveUpMoves ==
  ASSUME NEW f, NEW got, NEW text, NEW rc, GiveUp(f, got, text, rc), rc # "OK",
         Held(f) \cup text = ReaderHolds(st) \cup got, \A o \in got : o[1] \in ReaderTags
  PROVE  ReaderMoves
  <1>1. st' = [ClosedFile EXCEPT !.stage = "returned", !.rc = rc] /\ Heap(got, Held(f) \cup text)
    BY DEF GiveUp
  <1>2. IsStFile(st') /\ st'.stage = "returned" /\ st'.rc = rc
    BY <1>1, ClosedIsStFile, ZenonT(30)
  <1>3. ReaderHolds(st') = {}
    BY <1>2 DEF ReaderHolds
  <1> QED BY <1>1, <1>2, <1>3 DEF ReaderMoves

\* A step that goes on, its file being g now.
LEMMA GoesOn ==
  ASSUME NEW g, NEW got, NEW gone, st' = g, Heap(got, gone), IsStFile(g),
         \A o \in got : o[1] \in ReaderTags, gone \subseteq ReaderHolds(st) \cup got,
         (ReaderHolds(st) \cup got) \ gone = ReaderHolds(g),
         g.stage \in {"opened", "returned"} \cup Scanning
  PROVE  ReaderMoves
  BY DEF ReaderMoves

\* The file after the reader goes to its next place.
LEMMA GotoProperties ==
  ASSUME NEW f, IsStFile(f), NEW next, next.stage \in Scanning
  PROVE  LET g == Goto(f, next) IN
         /\ IsStFile(g) /\ g.stage = next.stage /\ g.table = f.table /\ g.cap = f.cap
         /\ g.meta = f.meta /\ g.metaCap = f.metaCap /\ g.rc = f.rc
         /\ Held(g) = Held(f) /\ ReaderHolds(g) = Held(f) \cup HeaderText
  <1> DEFINE g == Goto(f, next)
  <1>1. /\ DOMAIN g = Fields /\ g.stage = next.stage /\ g.table = f.table /\ g.cap = f.cap
        /\ g.meta = f.meta /\ g.metaCap = f.metaCap /\ g.rc = f.rc
    BY DEF Goto, IsStFile, Fields
  <1> HIDE DEF g
  <1>2. IsStFile(g)
    BY <1>1 DEF IsStFile
  <1>3. Held(g) = Held(f)
    BY <1>1, <1>2, HeldSame DEF IsStFile
  <1>4. ReaderHolds(g) = Held(f) \cup HeaderText
    BY <1>1, <1>3 DEF ReaderHolds, Scanning
  <1> QED BY <1>1, <1>2, <1>3, <1>4 DEF g

\* After an entry or a pair the scan goes on.
LEMMA FollowingStage ==
  ASSUME NEW h, NEW q, NEW stage \in {"entry", "pair"}
  PROVE  Following(h, q, stage).stage \in Scanning
  BY DEF Following, Scanning

\* While it scans, the reader holds the file's parts and the header's text.
LEMMA ScanningHolds ==
  ASSUME st.stage \in Scanning
  PROVE  ReaderHolds(st) = Held(st) \cup HeaderText
  BY DEF ReaderHolds, Scanning

\* Giving up during the scan, with nothing acquired.
LEMMA PlainGiveUp ==
  ASSUME st.stage \in Scanning, NEW rc, rc # "OK", GiveUp(st, {}, HeaderText, rc)
  PROVE  ReaderMoves
  <1>1. Held(st) \cup HeaderText = ReaderHolds(st) \cup {}
    BY ScanningHolds
  <1> QED BY <1>1, GiveUpMoves

\* Going on during the scan, with nothing acquired.
LEMMA PlainGoto ==
  ASSUME IsStFile(st), st.stage \in Scanning, NEW next, next.stage \in Scanning,
         st' = Goto(st, next), Heap({}, {})
  PROVE  ReaderMoves
  <1> DEFINE g == Goto(st, next)
  <1>1. IsStFile(g) /\ g.stage = next.stage /\ ReaderHolds(g) = Held(st) \cup HeaderText
    BY GotoProperties
  <1> HIDE DEF g
  <1>2. ReaderHolds(st) = Held(st) \cup HeaderText
    BY ScanningHolds
  <1>3. st' = g
    BY DEF g
  <1> QED BY <1>1, <1>2, <1>3, GoesOn

\* fopen and calloc.
LEMMA StFopenMoves == ASSUME StFopen, st.stage = "called" PROVE ReaderMoves
  <1>1. ReaderHolds(st) = {}
    BY DEF ReaderHolds
  <1>2. CASE \E rc \in {"OPEN", "NOMEM"} :
               st' = [ClosedFile EXCEPT !.stage = "returned", !.rc = rc] /\ Heap({}, {})
    <2>1. PICK rc \in {"OPEN", "NOMEM"} :
            st' = [ClosedFile EXCEPT !.stage = "returned", !.rc = rc] /\ Heap({}, {})
      BY <1>2
    <2>2. IsStFile(st') /\ st'.stage = "returned" /\ st'.rc = rc
      <3>1. SomeSeq(<<>>) /\ Len(<<>>) = 0
        BY EmptySomeSeq
      <3>2. st' = [ClosedFile EXCEPT !.stage = "returned", !.rc = rc]
        BY <2>1
      <3> QED BY <3>1, <3>2 DEF ClosedFile, IsStFile, Fields
    <2>3. ReaderHolds(st') = {}
      BY <2>1, <2>2 DEF ReaderHolds
    <2> QED BY <1>1, <2>1, <2>2, <2>3 DEF ReaderMoves
  <1>3. CASE st' = [ClosedFile EXCEPT !.stage = "opened"] /\ Heap(Held(ClosedFile), {})
    <2>1. IsStFile(st') /\ st'.stage = "opened" /\ IsStFile(ClosedFile)
      BY <1>3, ClosedIsStFile
    <2>2. Held(st') = Held(ClosedFile)
      <3>1. st'.cap = ClosedFile.cap /\ st'.meta = ClosedFile.meta
        BY <1>3 DEF ClosedFile
      <3> QED BY <2>1, <3>1, HeldSame DEF IsStFile
    <2>3. ReaderHolds(st') = Held(ClosedFile)
      BY <2>1, <2>2 DEF ReaderHolds
    <2>4. \A o \in Held(ClosedFile) : o[1] \in ReaderTags
      BY HeldTags
    <2> QED BY <1>1, <1>3, <2>1, <2>3, <2>4 DEF ReaderMoves
  <1> QED BY <1>2, <1>3 DEF StFopen

\* Reading the header's bytes.
LEMMA ReadHeaderMoves == ASSUME IsStFile(st), ReadHeader PROVE ReaderMoves
  <1>0. st.stage = "opened" /\ ReaderHolds(st) = Held(st)
    BY DEF ReadHeader, ReaderHolds
  <1>1. PICK rc \in HeaderOutcomes(file) :
          IF rc = "OK" THEN st' = [st EXCEPT !.stage = "header"] /\ Heap(HeaderText, {})
          ELSE GiveUp(st, {}, {}, rc)
    BY DEF ReadHeader
  <1>2. CASE rc = "OK"
    <2> DEFINE g == [st EXCEPT !.stage = "header"]
    <2>1. /\ DOMAIN g = Fields /\ g.stage = "header" /\ g.table = st.table /\ g.cap = st.cap
          /\ g.meta = st.meta /\ g.metaCap = st.metaCap
      BY DEF IsStFile, Fields
    <2> HIDE DEF g
    <2>2. IsStFile(g)
      BY <2>1 DEF IsStFile
    <2>3. Held(g) = Held(st)
      BY <2>1, <2>2, HeldSame DEF IsStFile
    <2>4. ReaderHolds(g) = Held(st) \cup HeaderText
      BY <2>1, <2>3 DEF ReaderHolds
    <2>5. st' = g /\ Heap(HeaderText, {}) /\ \A o \in HeaderText : o[1] \in ReaderTags
      BY <1>1, <1>2, HeldTags DEF g
    <2>6. g.stage \in Scanning
      BY <2>1 DEF Scanning
    <2> QED BY <1>0, <2>2, <2>4, <2>5, <2>6, GoesOn
  <1>3. CASE rc # "OK"
    <2>1. Held(st) \cup {} = ReaderHolds(st) \cup {}
      BY <1>0
    <2> QED BY <1>1, <1>3, <2>1, GiveUpMoves
  <1> QED BY <1>2, <1>3

\* The brackets: of the header, of the metadata, and the last.
LEMMA BeginHeaderMoves == ASSUME IsStFile(st), BeginHeader PROVE ReaderMoves
  <1> DEFINE h == Header(file)
             next == [stage |-> IF At(h, 2, "}") THEN "entries end" ELSE "entry", at |-> 2]
  <1>1. st.stage = "header" /\ st.stage \in Scanning
    BY DEF BeginHeader, Scanning
  <1>2. \/ GiveUp(st, {}, HeaderText, "BAD_JSON")
        \/ st' = Goto(st, next) /\ Heap({}, {})
    BY DEF BeginHeader
  <1>3. next.stage \in Scanning
    BY DEF Scanning
  <1> HIDE DEF next
  <1>4. CASE GiveUp(st, {}, HeaderText, "BAD_JSON")
    BY <1>1, <1>4, PlainGiveUp
  <1> QED BY <1>1, <1>2, <1>3, <1>4, PlainGoto

LEMMA EndPairsMoves == ASSUME IsStFile(st), EndPairs PROVE ReaderMoves
  <1> DEFINE next == Following(Header(file), st.at + 1, "entry")
  <1>1. st.stage \in Scanning
    BY DEF EndPairs, Scanning
  <1>2. \/ GiveUp(st, {}, HeaderText, "BAD_JSON")
        \/ st' = Goto(st, next) /\ Heap({}, {})
    BY DEF EndPairs
  <1>3. next.stage \in Scanning
    BY FollowingStage
  <1> HIDE DEF next
  <1>4. CASE GiveUp(st, {}, HeaderText, "BAD_JSON")
    BY <1>1, <1>4, PlainGiveUp
  <1> QED BY <1>1, <1>2, <1>3, <1>4, PlainGoto

LEMMA EndEntriesMoves == ASSUME IsStFile(st), st.rc = "OK", EndEntries PROVE ReaderMoves
  <1>1. st.stage \in Scanning
    BY DEF EndEntries, Scanning
  <1>2. \/ GiveUp(st, {}, HeaderText, "BAD_JSON")
        \/ st' = [st EXCEPT !.stage = "returned"] /\ Heap({}, HeaderText)
    BY DEF EndEntries
  <1>3. CASE GiveUp(st, {}, HeaderText, "BAD_JSON")
    BY <1>1, <1>3, PlainGiveUp
  <1>4. CASE st' = [st EXCEPT !.stage = "returned"] /\ Heap({}, HeaderText)
    <2> DEFINE g == [st EXCEPT !.stage = "returned"]
    <2>1. /\ DOMAIN g = Fields /\ g.stage = "returned" /\ g.table = st.table /\ g.cap = st.cap
          /\ g.meta = st.meta /\ g.metaCap = st.metaCap /\ g.rc = st.rc
      BY DEF IsStFile, Fields
    <2> HIDE DEF g
    <2>2. IsStFile(g)
      BY <2>1 DEF IsStFile
    <2>3. Held(g) = Held(st)
      BY <2>1, <2>2, HeldSame DEF IsStFile
    <2>4. ReaderHolds(g) = Held(st) /\ ReaderHolds(st) = Held(st) \cup HeaderText
      BY <1>1, <2>1, <2>3, ScanningHolds DEF ReaderHolds
    <2>5. Held(st) \cap HeaderText = {}
      BY DEF Held, HeaderText
    <2>6. st' = g
      BY <1>4 DEF g
    <2> QED BY <1>4, <2>1, <2>2, <2>4, <2>5, <2>6, GoesOn
  <1> QED BY <1>2, <1>3, <1>4

\* The array of entries after room is made for one more.
LEMMA GrownTable ==
  ASSUME IsStFile(st)
  PROVE  LET g == [st EXCEPT !.cap = Grown(@, Len(st.table) + 1)] IN
         /\ IsStFile(g) /\ Held(st) \subseteq Held(g) /\ g.table = st.table /\ g.meta = st.meta
         /\ g.cap >= Len(st.table) + 1 /\ g.cap \in Nat /\ g.metaCap = st.metaCap
         /\ DOMAIN g = Fields
  <1> DEFINE c == Grown(st.cap, Len(st.table) + 1)
             g == [st EXCEPT !.cap = Grown(@, Len(st.table) + 1)]
  <1>1. Len(st.table) \in Nat
    BY AnyAppend DEF IsStFile
  <1>2. c \in Nat /\ c >= Len(st.table) + 1
    <2>1. Len(st.table) + 1 \in Nat \ {0} /\ st.cap \in Nat
      BY <1>1 DEF IsStFile
    <2> QED BY <2>1, GrownRoom
  <1>3. /\ DOMAIN g = Fields /\ g.table = st.table /\ g.cap = c
        /\ g.meta = st.meta /\ g.metaCap = st.metaCap
    BY DEF IsStFile, Fields
  <1> HIDE DEF c, g
  <1>4. IsStFile(g)
    BY <1>1, <1>2, <1>3 DEF IsStFile
  <1>5. Held(st) \subseteq Held(g)
    <2>1. /\ st.cap > 0 => g.cap > 0
          /\ st.meta # <<>> => g.meta # <<>>
          /\ st.metaCap > 0 => st.meta # <<>>
          /\ DOMAIN st.meta \subseteq DOMAIN g.meta
      BY <1>1, <1>2, <1>3 DEF IsStFile
    <2> QED BY <2>1, HeldGrows
  <1> QED BY <1>2, <1>3, <1>4, <1>5 DEF g

\* A tensor: its array grows first, then the entry is parsed.
LEMMA ReadTensorMoves ==
  ASSUME IsStFile(st), st.stage \in Scanning, NEW h, NEW mem, ReadTensor(h, mem)
  PROVE  ReaderMoves
  <1> DEFINE name    == h[st.at][2]
             members == Members(h, st.at + 2, [q \in 1 .. Len(h) + 1 |-> TensorMember(h, q)])
             rc      == TensorStatus(h, members, name, file)
             t       == Tensor(h, name, members.begin, file)
             next    == Following(h, members.at, "entry")
             g       == [st EXCEPT !.cap = Grown(@, Len(st.table) + 1)]
             got     == Held(g) \ Held(st)
             n       == [Goto(g, next) EXCEPT !.table = Append(@, t)]
  <1>1. \/ GiveUp(st, {}, HeaderText, "NOMEM")
        \/ rc # "OK" /\ GiveUp(g, got, HeaderText, rc)
        \/ st' = n /\ Heap(got, {})
    BY DEF ReadTensor
  <1>2. next.stage \in Scanning
    BY FollowingStage
  <1>3. /\ IsStFile(g) /\ Held(st) \subseteq Held(g) /\ g.table = st.table /\ g.meta = st.meta
        /\ g.cap >= Len(st.table) + 1 /\ g.cap \in Nat
    BY GrownTable
  <1> HIDE DEF rc, t, next, g
  <1>4. ReaderHolds(st) = Held(st) \cup HeaderText /\ \A o \in got : o[1] \in ReaderTags
    BY ScanningHolds, HeldTags
  <1>5. Held(g) \cup HeaderText = ReaderHolds(st) \cup got
    BY <1>3, <1>4
  <1>6. CASE GiveUp(st, {}, HeaderText, "NOMEM")
    BY <1>6, PlainGiveUp
  <1>7. CASE rc # "OK" /\ GiveUp(g, got, HeaderText, rc)
    <2> HIDE DEF got
    <2> QED BY <1>4, <1>5, <1>7, GiveUpMoves
  <1>8. CASE st' = n /\ Heap(got, {})
    <2> DEFINE f == Goto(g, next)
    <2>1. /\ IsStFile(f) /\ f.stage = next.stage /\ f.table = st.table /\ f.cap = g.cap
          /\ f.meta = st.meta /\ f.metaCap = g.metaCap /\ Held(f) = Held(g)
      BY <1>2, <1>3, GotoProperties
    <2>2. n = [f EXCEPT !.table = Append(@, t)]
      OBVIOUS
    <2> HIDE DEF n, f
    <2>3. /\ DOMAIN n = Fields /\ n.stage = next.stage /\ n.table = Append(st.table, t)
          /\ n.cap = g.cap /\ n.meta = f.meta /\ n.metaCap = f.metaCap
      BY <2>1, <2>2 DEF IsStFile, Fields
    <2>4. SomeSeq(n.table) /\ Len(n.table) = Len(st.table) + 1
      BY <2>3, AnyAppend DEF IsStFile
    <2>5. IsStFile(n)
      BY <1>3, <2>1, <2>3, <2>4 DEF IsStFile
    <2>6. Held(n) = Held(g)
      BY <2>1, <2>3, <2>5, HeldSame DEF IsStFile
    <2>7. ReaderHolds(n) = Held(g) \cup HeaderText
      BY <1>2, <2>3, <2>6 DEF ReaderHolds, Scanning
    <2>8. (ReaderHolds(st) \cup got) \ {} = ReaderHolds(n)
      BY <1>5, <2>7
    <2> HIDE DEF got
    <2> QED BY <1>2, <1>4, <1>8, <2>3, <2>5, <2>8, GoesOn
  <1> QED BY <1>1, <1>6, <1>7, <1>8

\* An entry of the header.
LEMMA ReadEntryMoves ==
  ASSUME IsStFile(st), NEW mem \in BOOLEAN, ReadEntry(mem)
  PROVE  ReaderMoves
  <1> DEFINE h == Header(file)
             next == IF At(h, st.at + 3, "}") THEN Following(h, st.at + 4, "entry")
                     ELSE [stage |-> "pair", at |-> st.at + 3]
             n == [Goto(st, next) EXCEPT !.hasMeta = TRUE, !.metaCap = 0]
  <1>1. st.stage \in Scanning
    BY DEF ReadEntry, Scanning
  <1>2. \/ GiveUp(st, {}, HeaderText, "BAD_JSON")
        \/ ReadTensor(h, mem)
        \/ st' = n /\ Heap({}, {})
    BY DEF ReadEntry
  <1>3. next.stage \in Scanning
    <2>1. Following(h, st.at + 4, "entry").stage \in Scanning
      BY FollowingStage
    <2>2. [stage |-> "pair", at |-> st.at + 3].stage \in Scanning
      BY DEF Scanning
    <2> QED BY <2>1, <2>2
  <1> HIDE DEF next, h
  <1>4. CASE GiveUp(st, {}, HeaderText, "BAD_JSON")
    BY <1>1, <1>4, PlainGiveUp
  <1>5. CASE ReadTensor(h, mem)
    BY <1>1, <1>5, ReadTensorMoves
  <1>6. CASE st' = n /\ Heap({}, {})
    <2> DEFINE f == Goto(st, next)
    <2>1. /\ IsStFile(f) /\ f.stage = next.stage /\ f.table = st.table /\ f.cap = st.cap
          /\ f.meta = st.meta /\ Held(f) = Held(st)
      BY <1>3, GotoProperties
    <2>2. n = [f EXCEPT !.hasMeta = TRUE, !.metaCap = 0]
      OBVIOUS
    <2> HIDE DEF n, f
    <2>3. /\ DOMAIN n = Fields /\ n.stage = next.stage /\ n.table = f.table
          /\ n.cap = f.cap /\ n.meta = f.meta /\ n.metaCap = 0
      BY <2>1, <2>2 DEF IsStFile, Fields
    <2>4. IsStFile(n)
      BY <2>1, <2>3 DEF IsStFile
    <2>5. Held(n) = Held(f)
      BY <2>1, <2>3, <2>4, HeldSame DEF IsStFile
    <2>6. ReaderHolds(n) = Held(st) \cup HeaderText
      BY <1>3, <2>1, <2>3, <2>5 DEF ReaderHolds, Scanning
    <2>7. (ReaderHolds(st) \cup {}) \ {} = ReaderHolds(n)
      BY <1>1, <2>6, ScanningHolds
    <2> QED BY <1>3, <1>6, <2>3, <2>4, <2>7, GoesOn
  <1> QED BY <1>2, <1>4, <1>5, <1>6

\* A pair of the metadata.
LEMMA ReadPairMoves ==
  ASSUME IsStFile(st), NEW mem, ReadPair(mem)
  PROVE  ReaderMoves
  <1> DEFINE h     == Header(file)
             g     == [st EXCEPT !.metaCap = Grown(@, Len(st.meta) + 1)]
             pair  == <<h[st.at][2], h[st.at + 2][2]>>
             added == [g EXCEPT !.meta = Append(@, pair)]
             next  == Following(h, st.at + 3, "pair")
  <1>1. st.stage \in Scanning
    BY DEF ReadPair, Scanning
  <1>2. \/ GiveUp(st, {}, HeaderText, "BAD_JSON")
        \/ GiveUp(st, {}, HeaderText, "NOMEM")
        \/ GiveUp(g, Held(g) \ Held(st), HeaderText, "NOMEM")
        \/ st' = Goto(added, next) /\ Heap(Held(added) \ Held(st), {})
    BY DEF ReadPair
  <1>3. next.stage \in Scanning
    BY FollowingStage
  <1>4. ReaderHolds(st) = Held(st) \cup HeaderText
    BY <1>1, ScanningHolds
  <1> HIDE DEF next, pair
  <1>5. /\ DOMAIN g = Fields /\ g.stage = st.stage /\ g.table = st.table /\ g.cap = st.cap
        /\ g.meta = st.meta /\ g.metaCap = Grown(st.metaCap, Len(st.meta) + 1)
    BY DEF IsStFile, Fields
  <1>6. /\ SomeSeq(Append(st.meta, pair)) /\ Len(st.meta) \in Nat /\ DOMAIN st.meta = 1 .. Len(st.meta)
        /\ DOMAIN Append(st.meta, pair) = 1 .. Len(st.meta) + 1 /\ Append(st.meta, pair) # <<>>
    BY AnyAppend DEF IsStFile
  <1>7. g.metaCap \in Nat
    BY <1>5, <1>6, GrownRoom DEF IsStFile
  <1> HIDE DEF g
  <1>8. /\ DOMAIN added = Fields /\ added.table = st.table /\ added.cap = st.cap
        /\ added.meta = Append(st.meta, pair) /\ added.metaCap = g.metaCap
    BY <1>5 DEF Fields
  <1> HIDE DEF added
  <1>9. IsStFile(added)
    BY <1>6, <1>7, <1>8 DEF IsStFile
  <1>10. Held(st) \subseteq Held(g)
    <2>1. /\ st.cap > 0 => g.cap > 0
          /\ st.meta # <<>> => g.meta # <<>>
          /\ st.metaCap > 0 => st.meta # <<>>
          /\ DOMAIN st.meta \subseteq DOMAIN g.meta
      BY <1>5 DEF IsStFile
    <2> QED BY <2>1, HeldGrows
  <1>11. Held(st) \subseteq Held(added)
    <2>1. /\ st.cap > 0 => added.cap > 0
          /\ st.meta # <<>> => added.meta # <<>>
          /\ st.metaCap > 0 => st.meta # <<>>
          /\ DOMAIN st.meta \subseteq DOMAIN added.meta
      BY <1>6, <1>8 DEF IsStFile
    <2> QED BY <2>1, HeldGrows
  <1>12. CASE GiveUp(st, {}, HeaderText, "BAD_JSON") \/ GiveUp(st, {}, HeaderText, "NOMEM")
    BY <1>1, <1>12, PlainGiveUp
  <1>13. CASE GiveUp(g, Held(g) \ Held(st), HeaderText, "NOMEM")
    <2> DEFINE got == Held(g) \ Held(st)
    <2>1. \A o \in got : o[1] \in ReaderTags
      BY HeldTags
    <2>2. Held(g) \cup HeaderText = ReaderHolds(st) \cup got
      BY <1>4, <1>10
    <2>3. GiveUp(g, got, HeaderText, "NOMEM")
      BY <1>13
    <2> HIDE DEF got
    <2> QED BY <2>1, <2>2, <2>3, GiveUpMoves
  <1>14. CASE st' = Goto(added, next) /\ Heap(Held(added) \ Held(st), {})
    <2> DEFINE n   == Goto(added, next)
               got == Held(added) \ Held(st)
    <2>1. IsStFile(n) /\ n.stage = next.stage /\ ReaderHolds(n) = Held(added) \cup HeaderText
      BY <1>3, <1>9, GotoProperties
    <2>2. \A o \in got : o[1] \in ReaderTags
      BY HeldTags
    <2>3. (ReaderHolds(st) \cup got) \ {} = Held(added) \cup HeaderText
      BY <1>4, <1>11
    <2>4. st' = n /\ Heap(got, {})
      BY <1>14
    <2> HIDE DEF n, got
    <2> QED BY <1>3, <2>1, <2>2, <2>3, <2>4, GoesOn
  <1> QED BY <1>2, <1>12, <1>13, <1>14

\* Every step of st_open.
LEMMA StOpenMoves ==
  ASSUME IsStFile(st), st.stage # "returned" => st.rc = "OK", StOpen
  PROVE  ReaderMoves /\ st.stage \in {"called", "opened"} \cup Scanning
  <1>1. CASE StFopen
    BY <1>1, StFopenMoves DEF StFopen
  <1>2. CASE ReadHeader
    BY <1>2, ReadHeaderMoves DEF ReadHeader
  <1>3. CASE BeginHeader
    BY <1>3, BeginHeaderMoves DEF BeginHeader, Scanning
  <1>4. CASE \E mem \in BOOLEAN : ReadEntry(mem)
    BY <1>4, ReadEntryMoves DEF ReadEntry, Scanning
  <1>5. CASE \E mem \in {"nothing", "array", "all"} : ReadPair(mem)
    BY <1>5, ReadPairMoves DEF ReadPair, Scanning
  <1>6. CASE EndPairs
    BY <1>6, EndPairsMoves DEF EndPairs, Scanning
  <1>7. CASE EndEntries
    BY <1>7, EndEntriesMoves DEF EndEntries, Scanning
  <1> QED BY <1>1, <1>2, <1>3, <1>4, <1>5, <1>6, <1>7 DEF StOpen

\* Until it returns, nothing has gone wrong.
LEMMA OpenKeepsStatus ==
  ASSUME IsStFile(st), st.stage # "returned" => st.rc = "OK", StOpen
  PROVE  st'.stage # "returned" => st'.rc = "OK"
  <1> DEFINE Fine(f) == DOMAIN f = Fields /\ f.rc = "OK"
  <1>0. \A f, got, text, rc : GiveUp(f, got, text, rc) => st'.stage = "returned"
    BY DEF GiveUp, ClosedFile
  <1>1. ASSUME NEW f, NEW next, Fine(f) PROVE Fine(Goto(f, next))
    BY <1>1 DEF Goto, Fields
  <1>2. CASE StFopen
    BY <1>2 DEF StFopen, ClosedFile
  <1>3. Fine(st) \/ StFopen
    BY DEF StOpen, ReadHeader, BeginHeader, ReadEntry, ReadPair, EndPairs, EndEntries, IsStFile
  <1>4. CASE Fine(st) /\ ReadHeader
    BY <1>0, <1>4 DEF ReadHeader, Fields
  <1>5. CASE Fine(st) /\ BeginHeader
    <2> HIDE DEF Fine
    <2>1. st'.stage = "returned" \/ Fine(st')
      BY <1>0, <1>1, <1>5 DEF BeginHeader
    <2> QED BY <2>1 DEF Fine
  <1>6. CASE Fine(st) /\ EndPairs
    <2> HIDE DEF Fine
    <2>1. st'.stage = "returned" \/ Fine(st')
      BY <1>0, <1>1, <1>6 DEF EndPairs
    <2> QED BY <2>1 DEF Fine
  <1>7. CASE Fine(st) /\ EndEntries
    BY <1>0, <1>7 DEF EndEntries, Fields
  <1>8. ASSUME Fine(st), NEW h, NEW mem, ReadTensor(h, mem)
        PROVE  st'.stage = "returned" \/ Fine(st')
    <2> DEFINE members == Members(h, st.at + 2, [q \in 1 .. Len(h) + 1 |-> TensorMember(h, q)])
               t == Tensor(h, h[st.at][2], members.begin, file)
               next == Following(h, members.at, "entry")
               g == [st EXCEPT !.cap = Grown(@, Len(st.table) + 1)]
    <2>1. st'.stage = "returned" \/ st' = [Goto(g, next) EXCEPT !.table = Append(@, t)]
      BY <1>0, <1>8 DEF ReadTensor
    <2>2. Fine(g)
      BY <1>8 DEF Fields
    <2> HIDE DEF t, next, g, Fine
    <2>3. Fine(Goto(g, next))
      BY <1>1, <2>2
    <2>4. \A f : Fine(f) => Fine([f EXCEPT !.table = Append(@, t)])
      BY DEF Fine, Fields
    <2> QED BY <2>1, <2>3, <2>4
  <1>9. CASE Fine(st) /\ \E mem \in BOOLEAN : ReadEntry(mem)
    <2>1. PICK mem \in BOOLEAN : ReadEntry(mem)
      BY <1>9
    <2> DEFINE h == Header(file)
               next == IF At(h, st.at + 3, "}") THEN Following(h, st.at + 4, "entry")
                       ELSE [stage |-> "pair", at |-> st.at + 3]
    <2>2. \/ st'.stage = "returned" \/ ReadTensor(h, mem)
          \/ st' = [Goto(st, next) EXCEPT !.hasMeta = TRUE, !.metaCap = 0]
      BY <1>0, <2>1 DEF ReadEntry
    <2> HIDE DEF h, next, Fine
    <2>3. Fine(Goto(st, next))
      BY <1>1, <1>9
    <2>4. \A f : Fine(f) => Fine([f EXCEPT !.hasMeta = TRUE, !.metaCap = 0])
      BY DEF Fine, Fields
    <2>5. st'.stage = "returned" \/ Fine(st')
      BY <1>8, <1>9, <2>2, <2>3, <2>4
    <2> QED BY <2>5 DEF Fine
  <1>10. CASE Fine(st) /\ \E mem \in {"nothing", "array", "all"} : ReadPair(mem)
    <2>1. PICK mem \in {"nothing", "array", "all"} : ReadPair(mem)
      BY <1>10
    <2> DEFINE h == Header(file)
               g == [st EXCEPT !.metaCap = Grown(@, Len(st.meta) + 1)]
               pair == <<h[st.at][2], h[st.at + 2][2]>>
               next == Following(h, st.at + 3, "pair")
               added == [g EXCEPT !.meta = Append(@, pair)]
    <2>2. st'.stage = "returned" \/ st' = Goto(added, next)
      BY <1>0, <2>1 DEF ReadPair
    <2> HIDE DEF pair, next
    <2>3. Fine(added)
      BY <1>10 DEF Fields
    <2> HIDE DEF added, Fine
    <2>4. st'.stage = "returned" \/ Fine(st')
      BY <1>1, <2>2, <2>3
    <2> QED BY <2>4 DEF Fine
  <1> QED BY <1>2, <1>3, <1>4, <1>5, <1>6, <1>7, <1>9, <1>10 DEF StOpen

-----------------------------------------------------------------------------
(* The whole: the tool, the loader and the reader they call.               *)

\* The places of the two programs.
Places == {"start", "tool open", "tool config", "tool write", "written", "checks", "weights",
           "tables", "tensors", "failed", "loaded", "freed"}

\* What the tool or the loader holds, next to its weight file.
LoaderHolds ==
  CASE pc = "tool write" -> {<<"tool", "cfg">>}
    [] pc \in {"checks", "weights", "tables", "tensors"} -> Texts \cup HeldModel(model)
    [] pc = "loaded" -> HeldModel(model)
    [] OTHER -> {}

\* Every live object is one of the reader's or one of the loader's.
HeapInv == wild = FALSE /\ live = ReaderHolds(st) \cup LoaderHolds

\* Where the programs are when the weight file is not open, being opened, or open.
FileInv ==
  /\ IsStFile(st)
  /\ st.stage # "returned" => st.rc = "OK"
  /\ CASE pc \in {"tool open", "weights"} -> st.stage \in {"called", "opened", "returned"} \cup Scanning
       [] pc \in {"tool config", "tool write", "tables", "tensors"} ->
            st.stage = "returned" /\ st.rc = "OK"
       [] OTHER -> st.stage = "closed"

\* The model under construction, as far as it has come.
ModelInv ==
  /\ pc \in Places /\ session \in Sessions
  /\ DOMAIN model = {"config", "records", "layers", "buffers", "recorded"}
  /\ model.records \in BOOLEAN /\ model.layers \in BOOLEAN /\ SomeSeq(model.buffers)
  /\ pc \in {"checks", "weights", "tables"} =>
       model.records = FALSE /\ model.layers = FALSE /\ model.buffers = <<>>
  /\ pc \in {"weights", "tables", "tensors", "loaded"} => "n_layer" \in DOMAIN config
  /\ pc \in {"tensors", "loaded"} =>
       model.records = TRUE /\ model.layers = TRUE /\ config.n_layer >= 0
  /\ pc = "loaded" => Len(model.buffers) = 4 + 12 * config.n_layer

\* The inductive invariant.
LoadInv == HeapInv /\ FileInv /\ ModelInv

\* Nothing of the loader's bears a reader's mark.
LEMMA LoaderTags ==
  ASSUME pc \in Places
  PROVE  \A o \in LoaderHolds : o[1] \notin ReaderTags
  <1>1. ASSUME NEW o \in HeldModel(model) PROVE o[1] \in {"model", "buffer"}
    <2>1. CASE o \in {<<"model", "self">>, <<"model", "records">>, <<"model", "layers">>}
      BY <2>1
    <2>2. CASE \E k : o = <<"buffer", k>>
      BY <2>2
    <2> QED BY <1>1, <2>1, <2>2 DEF HeldModel
  <1>2. \A o \in Texts \cup {<<"tool", "cfg">>} : o[1] \in {"load", "tool"}
    BY DEF Texts
  <1>3. LoaderHolds \subseteq {<<"tool", "cfg">>} \cup Texts \cup HeldModel(model)
    BY DEF LoaderHolds, Places
  <1> QED BY <1>1, <1>2, <1>3 DEF ReaderTags

\* It implies what is to be shown.
LEMMA LoadInvFollows == ASSUME LoadInv PROVE ReleasedOnce
  <1>1. wild = FALSE /\ live = ReaderHolds(st) \cup LoaderHolds
    BY DEF LoadInv, HeapInv
  <1>2. Len(st.table) <= st.cap
    BY DEF LoadInv, FileInv, IsStFile
  <1>3. ASSUME pc \in {"start", "written", "failed", "freed"} PROVE live = {}
    <2>1. st.stage = "closed"
      BY <1>3 DEF LoadInv, FileInv
    <2> QED BY <1>1, <1>3, <2>1 DEF ReaderHolds, LoaderHolds
  <1>4. ASSUME pc = "loaded"
        PROVE  live = HeldModel(model) /\ Len(model.buffers) = 4 + 12 * config.n_layer
    <2>1. st.stage = "closed" /\ Len(model.buffers) = 4 + 12 * config.n_layer
      BY <1>4 DEF LoadInv, FileInv, ModelInv
    <2> QED BY <1>1, <1>4, <2>1 DEF ReaderHolds, LoaderHolds
  <1>5. ASSUME st.stage = "returned"
        PROVE  { o \in live : o[1] \in {"st", "key", "value"} } = (IF st.rc = "OK" THEN Held(st) ELSE {})
    <2>1. ReaderHolds(st) = IF st.rc = "OK" THEN Held(st) ELSE {}
      BY <1>5 DEF ReaderHolds
    <2>2. \A o \in ReaderHolds(st) : o[1] \in ReaderTags
      BY HolderTags
    <2>3. \A o \in LoaderHolds : o[1] \notin ReaderTags
      BY LoaderTags DEF LoadInv, ModelInv
    <2> QED BY <1>1, <2>1, <2>2, <2>3 DEF ReaderTags
  <1> QED BY <1>1, <1>2, <1>3, <1>4, <1>5 DEF ReleasedOnce

\* The values the programs start from.
LEMMA ClosedHolds == IsStFile(ClosedFile) /\ ReaderHolds(ClosedFile) = {} /\ ClosedFile.stage = "closed"
                     /\ ClosedFile.rc = "OK"
  <1>1. SomeSeq(<<>>) /\ Len(<<>>) = 0
    BY EmptySomeSeq
  <1> QED BY <1>1 DEF ClosedFile, IsStFile, Fields, ReaderHolds

LEMMA NoModelIsModel ==
  /\ DOMAIN NoModel = {"config", "records", "layers", "buffers", "recorded"}
  /\ NoModel.records = FALSE /\ NoModel.layers = FALSE /\ NoModel.buffers = <<>> /\ SomeSeq(<<>>)
  BY EmptySomeSeq DEF NoModel

\* What is closed with the weight file, once its open has returned.
LEMMA HeldFileIs ==
  ASSUME st.stage \in {"closed", "returned"}
  PROVE  HeldFile = ReaderHolds(st)
  BY DEF HeldFile, ReaderHolds

\* A file about to be opened.
LEMMA CalledFile ==
  LET f == [ClosedFile EXCEPT !.stage = "called"] IN
  IsStFile(f) /\ f.stage = "called" /\ f.rc = "OK" /\ ReaderHolds(f) = {}
  <1> DEFINE f == [ClosedFile EXCEPT !.stage = "called"]
  <1>1. f.table = <<>> /\ f.meta = <<>> /\ f.cap = 0 /\ f.metaCap = 0
        /\ DOMAIN f = Fields /\ f.stage = "called" /\ f.rc = "OK"
    BY DEF ClosedFile, Fields
  <1> HIDE DEF f
  <1>2. IsStFile(f) /\ ReaderHolds(f) = {}
    BY <1>1, EmptySomeSeq DEF IsStFile, ReaderHolds
  <1> QED BY <1>1, <1>2 DEF f

\* The two texts are not parts of the model.
LEMMA TextsApart == ASSUME NEW m PROVE Texts \cap HeldModel(m) = {}
  <1>1. \A o \in Texts : o[1] = "load"
    BY DEF Texts
  <1>2. ASSUME NEW o \in HeldModel(m) PROVE o[1] \in {"model", "buffer"}
    <2>1. CASE o \in {<<"model", "self">>, <<"model", "records">>, <<"model", "layers">>}
      BY <2>1
    <2>2. CASE \E k : o = <<"buffer", k>>
      BY <2>2
    <2> QED BY <1>2, <2>1, <2>2 DEF HeldModel
  <1> QED BY <1>1, <1>2

\* The loader wants four tensors and twelve for each layer.
LEMMA WantedLength ==
  ASSUME NEW c, c.n_layer \in Nat
  PROVE  Len(Wanted(c)) = 4 + 12 * c.n_layer
  <1>1. DOMAIN Wanted(c) = 1 .. 4 + 12 * c.n_layer
    BY DEF Wanted
  <1>2. 4 + 12 * c.n_layer \in Nat
    OBVIOUS
  <1>3. Wanted(c) = [k \in 1 .. 4 + 12 * c.n_layer |-> Wanted(c)[k]]
    BY <1>1 DEF Wanted
  <1> DEFINE n == 4 + 12 * c.n_layer
             W == { Wanted(c)[k] : k \in 1 .. n }
  <1>4. Wanted(c) \in [1 .. n -> W]
    BY <1>3
  <1> HIDE DEF n, W
  <1>5. n \in Nat
    BY <1>2 DEF n
  <1> QED BY <1>4, <1>5, FunctionIsSeq DEF n

\* It holds at first, and each step keeps it.
LEMMA LoadInitInv == ASSUME LoadInit PROVE LoadInv
  BY ClosedHolds, NoModelIsModel
     DEF LoadInit, LoadInv, HeapInv, FileInv, ModelInv, LoaderHolds, Places

LEMMA StepStOpen == ASSUME LoadInv, StOpen, UNCHANGED loadVars PROVE LoadInv'
  <1>1. ReaderMoves /\ st.stage \in {"called", "opened"} \cup Scanning
        /\ (st'.stage # "returned" => st'.rc = "OK")
    BY StOpenMoves, OpenKeepsStatus DEF LoadInv, FileInv
  <1>2. PICK got, gone :
          /\ Heap(got, gone) /\ gone \subseteq ReaderHolds(st) \cup got
          /\ \A o \in got : o[1] \in ReaderTags
          /\ (ReaderHolds(st) \cup got) \ gone = ReaderHolds(st')
          /\ IsStFile(st') /\ st'.stage \in {"opened", "returned"} \cup Scanning
    BY <1>1 DEF ReaderMoves
  <1>3. pc \in {"tool open", "weights"}
    BY <1>1 DEF LoadInv, FileInv, Scanning
  <1>4. \A o \in LoaderHolds : o[1] \notin ReaderTags
    BY <1>3, LoaderTags DEF Places
  <1>5. \A o \in gone : o[1] \in ReaderTags
    BY <1>2, HolderTags
  <1>6. wild' = FALSE /\ live' = ReaderHolds(st') \cup LoaderHolds
    <2>1. gone \cap LoaderHolds = {}
      BY <1>4, <1>5
    <2> QED BY <1>2, <2>1 DEF Heap, LoadInv, HeapInv
  <1>7. LoaderHolds' = LoaderHolds
    BY DEF loadVars, LoaderHolds
  <1>8. HeapInv'
    BY <1>6, <1>7 DEF HeapInv
  <1>9. FileInv'
    BY <1>1, <1>2, <1>3 DEF FileInv, loadVars
  <1>10. ModelInv'
    BY DEF LoadInv, ModelInv, loadVars, config
  <1> QED BY <1>8, <1>9, <1>10 DEF LoadInv

LEMMA StepCallTool == ASSUME LoadInv, CallTool PROVE LoadInv'
  <1>1. st' = [ClosedFile EXCEPT !.stage = "called"] /\ pc = "start" /\ pc' = "tool open"
        /\ UNCHANGED <<session, model, live, wild>>
    BY DEF CallTool, CallStOpen
  <1>2. IsStFile(st') /\ st'.stage = "called" /\ st'.rc = "OK" /\ ReaderHolds(st') = {}
    BY <1>1, CalledFile
  <1>3. live = {}
    BY <1>1, LoadInvFollows DEF ReleasedOnce
  <1>4. HeapInv'
    BY <1>1, <1>2, <1>3 DEF LoadInv, HeapInv, LoaderHolds
  <1>5. FileInv'
    BY <1>1, <1>2 DEF FileInv
  <1>6. ModelInv'
    BY <1>1 DEF LoadInv, ModelInv, Places
  <1> QED BY <1>4, <1>5, <1>6 DEF LoadInv

\* The tool's exit.
LEMMA ToolExits ==
  ASSUME LoadInv, NEW texts, texts = LoaderHolds, ToolExit(texts), st.stage = "returned",
         UNCHANGED <<session, model>>
  PROVE  LoadInv'
  <1>1. pc' = "written" /\ st' = ClosedFile /\ Heap({}, HeldFile \cup texts)
    BY DEF ToolExit
  <1>2. HeldFile = ReaderHolds(st)
    BY HeldFileIs
  <1>3. live' = {} /\ wild' = FALSE
    BY <1>1, <1>2 DEF LoadInv, HeapInv, Heap
  <1>4. HeapInv'
    BY <1>1, <1>3, ClosedHolds DEF HeapInv, LoaderHolds
  <1>5. FileInv'
    BY <1>1, ClosedHolds DEF FileInv
  <1>6. ModelInv'
    BY <1>1 DEF LoadInv, ModelInv, Places
  <1> QED BY <1>4, <1>5, <1>6 DEF LoadInv

LEMMA StepToolOpened == ASSUME LoadInv, ToolOpened PROVE LoadInv'
  <1>1. pc = "tool open" /\ st.stage = "returned" /\ UNCHANGED <<session, model>>
    BY DEF ToolOpened
  <1>2. CASE st.rc = "OK"
    <2>1. pc' = "tool config" /\ UNCHANGED <<st, live, wild, session, model>>
      BY <1>2 DEF ToolOpened
    <2> QED BY <1>1, <1>2, <2>1 DEF LoadInv, HeapInv, FileInv, ModelInv, LoaderHolds, Places
  <1>3. CASE st.rc # "OK"
    <2>1. ToolExit({}) /\ {} = LoaderHolds
      BY <1>1, <1>3 DEF ToolOpened, LoaderHolds
    <2> QED BY <1>1, <2>1, ToolExits
  <1> QED BY <1>2, <1>3

LEMMA StepToolConfig == ASSUME LoadInv, NEW readable \in BOOLEAN, ToolConfig(readable) PROVE LoadInv'
  <1>1. pc = "tool config" /\ st.stage = "returned" /\ st.rc = "OK" /\ UNCHANGED <<session, model>>
    BY DEF ToolConfig, LoadInv, FileInv
  <1>2. LoaderHolds = {}
    BY <1>1 DEF LoaderHolds
  <1>3. CASE readable
    <2>1. pc' = "tool write" /\ Heap({<<"tool", "cfg">>}, {}) /\ UNCHANGED st
      BY <1>3 DEF ToolConfig
    <2>2. HeapInv'
      BY <1>2, <2>1 DEF LoadInv, HeapInv, Heap, LoaderHolds
    <2>3. FileInv' /\ ModelInv'
      BY <1>1, <2>1 DEF LoadInv, FileInv, ModelInv, Places
    <2> QED BY <2>2, <2>3 DEF LoadInv
  <1>4. CASE ~readable
    <2>1. ToolExit({})
      BY <1>4 DEF ToolConfig
    <2> QED BY <1>1, <1>2, <2>1, ToolExits
  <1> QED BY <1>3, <1>4

LEMMA StepToolWrites ==
  ASSUME LoadInv, (\E n \in -1 .. Len(st.table) : ToolWrite(n)) \/ ToolCannotWrite
  PROVE  LoadInv'
  <1>1. pc = "tool write" /\ ToolExit({<<"tool", "cfg">>}) /\ UNCHANGED <<session, model>>
    BY DEF ToolWrite, ToolCannotWrite
  <1>2. st.stage = "returned" /\ LoaderHolds = {<<"tool", "cfg">>}
    BY <1>1 DEF LoadInv, FileInv, LoaderHolds
  <1> QED BY <1>1, <1>2, ToolExits

\* Every failure of model_load gives back all it holds; new is what the step allocated.
LEMMA Failing ==
  ASSUME LoadInv, pc \in {"checks", "weights", "tables", "tensors"}, st.stage \in {"closed", "returned"},
         NEW m, NEW got, NEW temporary, NEW rc, Fail(m, got, temporary, rc),
         HeldModel(m) \cup temporary = HeldModel(model) \cup got, UNCHANGED session
  PROVE  LoadInv'
  <1>1. /\ pc' = "failed" /\ model' = NoModel /\ st' = ClosedFile
        /\ Heap(got, HeldFile \cup Texts \cup HeldModel(m) \cup temporary)
    BY DEF Fail
  <1>2. HeldFile = ReaderHolds(st) /\ LoaderHolds = Texts \cup HeldModel(model)
    BY HeldFileIs DEF LoaderHolds
  <1>3. HeldFile \cup Texts \cup HeldModel(m) \cup temporary = (ReaderHolds(st) \cup LoaderHolds) \cup got
    BY <1>2
  <1>4. live' = {} /\ wild' = FALSE
    BY <1>1, <1>3 DEF LoadInv, HeapInv, Heap
  <1>5. HeapInv'
    BY <1>1, <1>4, ClosedHolds DEF HeapInv, LoaderHolds
  <1>6. FileInv'
    BY <1>1, ClosedHolds DEF FileInv
  <1>7. ModelInv'
    BY <1>1, NoModelIsModel DEF LoadInv, ModelInv, Places
  <1> QED BY <1>5, <1>6, <1>7 DEF LoadInv

LEMMA StepCallLoad == ASSUME LoadInv, CallLoad PROVE LoadInv'
  <1>1. pc = "written" /\ UNCHANGED <<session, file, st>>
    BY DEF CallLoad, LoadUnchanged
  <1>2. live = {} /\ st.stage = "closed" /\ wild = FALSE /\ ReaderHolds(st) = {}
    BY <1>1, LoadInvFollows DEF ReleasedOnce, LoadInv, FileInv, HeapInv, ReaderHolds
  <1>3. CASE pc' = "failed" /\ UNCHANGED model /\ Heap({}, {})
    <2>1. HeapInv'
      BY <1>1, <1>2, <1>3 DEF HeapInv, Heap, LoaderHolds
    <2>2. FileInv' /\ ModelInv'
      BY <1>1, <1>2, <1>3 DEF LoadInv, FileInv, ModelInv, Places
    <2> QED BY <2>1, <2>2 DEF LoadInv
  <1>4. CASE /\ pc' = "checks" /\ model' = [NoModel EXCEPT !.config = config]
             /\ Heap(Texts \cup HeldModel(NoModel), {})
    <2>1. /\ DOMAIN model' = {"config", "records", "layers", "buffers", "recorded"}
          /\ model'.records = FALSE /\ model'.layers = FALSE /\ model'.buffers = <<>>
      BY <1>4 DEF NoModel
    <2>2. HeldModel(model') = HeldModel(NoModel)
      BY <2>1, NoModelIsModel DEF HeldModel
    <2>3. LoaderHolds' = Texts \cup HeldModel(model')
      BY <1>4 DEF LoaderHolds
    <2>4. HeapInv'
      BY <1>1, <1>2, <1>4, <2>2, <2>3 DEF HeapInv, Heap
    <2>5. FileInv' /\ ModelInv'
      BY <1>1, <1>2, <1>4, <2>1, EmptySomeSeq DEF LoadInv, FileInv, ModelInv, Places
    <2> QED BY <2>4, <2>5 DEF LoadInv
  <1> QED BY <1>3, <1>4 DEF CallLoad

LEMMA StepCheckConfig == ASSUME LoadInv, CheckConfig PROVE LoadInv'
  <1> DEFINE rc == ConfigStatus(config, inventory)
  <1>1. pc = "checks" /\ UNCHANGED session
    BY DEF CheckConfig, LoadUnchanged
  <1>2. st.stage = "closed" /\ ReaderHolds(st) = {} /\ LoaderHolds = Texts \cup HeldModel(model)
    BY <1>1 DEF LoadInv, FileInv, ReaderHolds, LoaderHolds
  <1>3. CASE rc # "OK"
    <2>1. Fail(model, {}, {}, rc)
      BY <1>3 DEF CheckConfig
    <2>2. HeldModel(model) \cup {} = HeldModel(model) \cup {}
      OBVIOUS
    <2> HIDE DEF rc
    <2> QED BY <1>1, <1>2, <2>1, <2>2, Failing
  <1>4. CASE rc = "OK"
    <2>1. pc' = "weights" /\ CallStOpen(session.load.weights) /\ UNCHANGED <<model, status, live, wild>>
      BY <1>4 DEF CheckConfig
    <2>2. "n_layer" \in DOMAIN config
      BY <1>4 DEF ConfigStatus, LoadFields
    <2>3. IsStFile(st') /\ st'.stage = "called" /\ st'.rc = "OK" /\ ReaderHolds(st') = {}
      BY <2>1, CalledFile DEF CallStOpen
    <2>4. HeapInv'
      BY <1>2, <2>1, <2>3 DEF LoadInv, HeapInv, LoaderHolds
    <2>5. FileInv'
      BY <2>1, <2>3 DEF FileInv
    <2>6. ModelInv'
      BY <1>1, <2>1, <2>2 DEF LoadInv, ModelInv, Places, config
    <2> QED BY <2>4, <2>5, <2>6 DEF LoadInv
  <1> QED BY <1>3, <1>4

LEMMA StepWeightsOpened == ASSUME LoadInv, WeightsOpened PROVE LoadInv'
  <1>1. pc = "weights" /\ st.stage = "returned" /\ UNCHANGED session
    BY DEF WeightsOpened, LoadUnchanged
  <1>2. CASE st.rc # "OK"
    <2>1. Fail(model, {}, {}, "WEIGHTS")
      BY <1>2 DEF WeightsOpened
    <2>2. HeldModel(model) \cup {} = HeldModel(model) \cup {}
      OBVIOUS
    <2> QED BY <1>1, <2>1, <2>2, Failing
  <1>3. CASE st.rc = "OK"
    <2>1. pc' = "tables" /\ UNCHANGED <<model, status, st, live, wild>>
      BY <1>3 DEF WeightsOpened
    <2>2. HeapInv'
      BY <1>1, <2>1 DEF LoadInv, HeapInv, LoaderHolds
    <2>3. FileInv' /\ ModelInv'
      BY <1>1, <1>3, <2>1 DEF LoadInv, FileInv, ModelInv, Places, config
    <2> QED BY <2>2, <2>3 DEF LoadInv
  <1> QED BY <1>2, <1>3

LEMMA StepAllocTables ==
  ASSUME LoadInv, NEW records \in BOOLEAN, NEW layers \in BOOLEAN, AllocTables(records, layers)
  PROVE  LoadInv'
  <1> DEFINE m   == [model EXCEPT !.records = records, !.layers = layers]
             got == HeldModel(m) \ HeldModel(model)
  <1>1. pc = "tables" /\ UNCHANGED session /\ (layers => config.n_layer >= 0)
    BY DEF AllocTables, LoadUnchanged
  <1>2. st.stage = "returned" /\ st.rc = "OK" /\ LoaderHolds = Texts \cup HeldModel(model)
        /\ model.records = FALSE /\ model.layers = FALSE /\ model.buffers = <<>>
    BY <1>1 DEF LoadInv, FileInv, ModelInv, LoaderHolds
  <1>3. /\ DOMAIN m = {"config", "records", "layers", "buffers", "recorded"}
        /\ m.records = records /\ m.layers = layers /\ m.buffers = <<>>
    BY <1>2 DEF LoadInv, ModelInv
  <1>4. \/ (~records \/ ~layers) /\ Fail(m, got, {}, "NOMEM")
        \/ records /\ layers /\ pc' = "tensors" /\ model' = m /\ Heap(got, {}) /\ UNCHANGED <<status, st>>
    BY DEF AllocTables
  <1> HIDE DEF m
  <1>5. HeldModel(model) \subseteq HeldModel(m)
    BY <1>2, <1>3 DEF HeldModel
  <1>6. CASE Fail(m, got, {}, "NOMEM")
    <2>1. HeldModel(m) \cup {} = HeldModel(model) \cup got
      BY <1>5
    <2> HIDE DEF got
    <2> QED BY <1>1, <1>2, <1>6, <2>1, Failing
  <1>7. CASE records /\ layers /\ pc' = "tensors" /\ model' = m /\ Heap(got, {}) /\ UNCHANGED <<status, st>>
    <2>1. LoaderHolds' = Texts \cup HeldModel(m)
      BY <1>7 DEF LoaderHolds
    <2>2. HeapInv'
      BY <1>2, <1>5, <1>7, <2>1 DEF LoadInv, HeapInv, Heap
    <2>3. FileInv'
      BY <1>1, <1>2, <1>7 DEF LoadInv, FileInv
    <2>4. ModelInv'
      BY <1>1, <1>3, <1>7, EmptySomeSeq DEF LoadInv, ModelInv, Places, config
    <2> QED BY <2>2, <2>3, <2>4 DEF LoadInv
  <1> QED BY <1>4, <1>6, <1>7

\* One buffer more.
LEMMA BufferAdded ==
  ASSUME NEW m, NEW n, n.records = m.records, n.layers = TRUE, m.layers = TRUE,
         SomeSeq(m.buffers), NEW bytes, n.buffers = Append(m.buffers, bytes)
  PROVE  HeldModel(n) = HeldModel(m) \cup {<<"buffer", Len(m.buffers) + 1>>}
  <1>1. Len(m.buffers) \in Nat /\ DOMAIN m.buffers = 1 .. Len(m.buffers)
        /\ DOMAIN n.buffers = 1 .. Len(m.buffers) + 1
    BY AnyAppend
  <1>2. DOMAIN n.buffers = DOMAIN m.buffers \cup {Len(m.buffers) + 1}
    BY <1>1
  <1> QED BY <1>2 DEF HeldModel

LEMMA StepLoadTensor ==
  ASSUME LoadInv, NEW mem \in BOOLEAN, NEW ok \in BOOLEAN, LoadTensor(mem, ok)
  PROVE  LoadInv'
  <1> DEFINE k     == Len(model.buffers) + 1
             want  == Wanted(config)[k]
             rc    == TensorMatches(want[1], want[2])
             t     == st.table[Find(st.table, want[1])]
             got   == BytesOf(file, t)
             bytes == IF IsProjection(k) /\ session.reading = "TRANSPOSED"
                      THEN TransposeSquare(got, config.n_embd) ELSE got
             lines == Record(k, want[1])
             new   == {<<"buffer", k>>}
             m     == [model EXCEPT !.buffers = Append(@, bytes), !.recorded = lines]
  <1>1. pc = "tensors" /\ UNCHANGED session
    BY DEF LoadTensor, LoadUnchanged
  <1>2. st.stage = "returned" /\ st.rc = "OK" /\ LoaderHolds = Texts \cup HeldModel(model)
        /\ model.records = TRUE /\ model.layers = TRUE /\ SomeSeq(model.buffers)
    BY <1>1 DEF LoadInv, FileInv, ModelInv, LoaderHolds
  <1>3. \/ Fail(model, {}, {}, rc)
        \/ Fail(model, {}, {}, "NOMEM")
        \/ Fail(model, new, new, "WEIGHTS")
        \/ model' = m /\ Heap(new, {}) /\ UNCHANGED <<pc, status, st>>
    BY DEF LoadTensor
  <1> HIDE DEF bytes, lines, rc
  <1>4. /\ DOMAIN m = {"config", "records", "layers", "buffers", "recorded"}
        /\ m.records = TRUE /\ m.layers = TRUE /\ m.buffers = Append(model.buffers, bytes)
    BY <1>2 DEF LoadInv, ModelInv
  <1> HIDE DEF m
  <1>5. CASE Fail(model, {}, {}, rc) \/ Fail(model, {}, {}, "NOMEM")
    <2>1. HeldModel(model) \cup {} = HeldModel(model) \cup {}
      OBVIOUS
    <2> QED BY <1>1, <1>2, <1>5, <2>1, Failing
  <1>6. CASE Fail(model, new, new, "WEIGHTS")
    <2>1. HeldModel(model) \cup new = HeldModel(model) \cup new
      OBVIOUS
    <2> HIDE DEF new
    <2> QED BY <1>1, <1>2, <1>6, <2>1, Failing
  <1>7. CASE model' = m /\ Heap(new, {}) /\ UNCHANGED <<pc, status, st>>
    <2>1. HeldModel(m) = HeldModel(model) \cup new
      BY <1>2, <1>4, BufferAdded
    <2>2. LoaderHolds' = Texts \cup HeldModel(m)
      BY <1>1, <1>7 DEF LoaderHolds
    <2>3. HeapInv'
      BY <1>2, <1>7, <2>1, <2>2 DEF LoadInv, HeapInv, Heap
    <2>4. FileInv'
      BY <1>7 DEF LoadInv, FileInv
    <2>5. SomeSeq(m.buffers)
      BY <1>2, <1>4, AnyAppend
    <2>6. ModelInv'
      BY <1>1, <1>4, <1>7, <2>5 DEF LoadInv, ModelInv, Places, config
    <2> QED BY <2>3, <2>4, <2>6 DEF LoadInv
  <1> QED BY <1>3, <1>5, <1>6, <1>7

LEMMA StepLoadReturns == ASSUME LoadInv, LoadReturns PROVE LoadInv'
  <1>1. /\ pc = "tensors" /\ pc' = "loaded" /\ st' = ClosedFile /\ UNCHANGED <<model, session>>
        /\ Len(model.buffers) = Len(Wanted(config)) /\ Heap({}, HeldFile \cup Texts)
    BY DEF LoadReturns, LoadUnchanged
  <1>2. st.stage = "returned" /\ LoaderHolds = Texts \cup HeldModel(model) /\ HeldFile = ReaderHolds(st)
        /\ config.n_layer \in Nat
    <2>1. st.stage = "returned" /\ LoaderHolds = Texts \cup HeldModel(model)
          /\ "n_layer" \in DOMAIN config /\ config.n_layer >= 0 /\ session \in Sessions
      BY <1>1 DEF LoadInv, FileInv, ModelInv, LoaderHolds
    <2>2. config.n_layer \in Int
      BY <2>1, SessionAssumption DEF config
    <2> QED BY <2>1, <2>2, HeldFileIs
  <1>3. Len(Wanted(config)) = 4 + 12 * config.n_layer
    BY <1>2, WantedLength
  <1>4. (ReaderHolds(st) \cup LoaderHolds) \ (HeldFile \cup Texts) = HeldModel(model)
    <2>1. \A o \in ReaderHolds(st) : o[1] \in ReaderTags
      BY HolderTags
    <2>2. \A o \in HeldModel(model) : o[1] \notin ReaderTags
      BY <1>1, <1>2, LoaderTags DEF Places
    <2>3. Texts \cap HeldModel(model) = {}
      BY TextsApart
    <2> QED BY <1>2, <2>1, <2>2, <2>3
  <1>5. HeapInv'
    <2>1. LoaderHolds' = HeldModel(model) /\ ReaderHolds(st') = {}
      BY <1>1, ClosedHolds DEF LoaderHolds
    <2> QED BY <1>1, <1>2, <1>4, <2>1 DEF LoadInv, HeapInv, Heap
  <1>6. FileInv'
    BY <1>1, ClosedHolds DEF FileInv
  <1>7. ModelInv'
    BY <1>1, <1>3 DEF LoadInv, ModelInv, Places, config
  <1> QED BY <1>5, <1>6, <1>7 DEF LoadInv

LEMMA StepModelFree == ASSUME LoadInv, ModelFree PROVE LoadInv'
  <1>1. pc = "loaded" /\ pc' = "freed" /\ model' = NoModel /\ Heap({}, HeldModel(model))
        /\ UNCHANGED <<st, session>>
    BY DEF ModelFree, LoadUnchanged
  <1>2. st.stage = "closed" /\ live = HeldModel(model) /\ wild = FALSE /\ ReaderHolds(st) = {}
    BY <1>1, LoadInvFollows DEF ReleasedOnce, LoadInv, FileInv, HeapInv, ReaderHolds
  <1>3. HeapInv'
    BY <1>1, <1>2 DEF HeapInv, Heap, LoaderHolds
  <1>4. FileInv'
    BY <1>1, <1>2 DEF LoadInv, FileInv
  <1>5. ModelInv'
    BY <1>1, NoModelIsModel DEF LoadInv, ModelInv, Places
  <1> QED BY <1>3, <1>4, <1>5 DEF LoadInv
-----------------------------------------------------------------------------
(* LoadInv is an invariant: whatever fails, the objects that are live are   *)
(* the ones the program still has a pointer to.                            *)
THEOREM LoadInductive == LoadSpec => []LoadInv
  <1>1. LoadInv /\ [LoadNext]_vars => LoadInv'
    <2>1. ASSUME LoadInv, LoadNext PROVE LoadInv'
      BY <2>1, StepStOpen, StepCallTool, StepToolOpened, StepToolConfig, StepToolWrites, StepCallLoad,
         StepCheckConfig, StepWeightsOpened, StepAllocTables, StepLoadTensor, StepLoadReturns,
         StepModelFree DEF LoadNext
    <2>2. ASSUME LoadInv, UNCHANGED vars PROVE LoadInv'
      <3>1. HeapInv'
        BY <2>2 DEF LoadInv, HeapInv, LoaderHolds, vars, loadVars, readerVars, heapVars
      <3>2. FileInv' /\ ModelInv'
        BY <2>2 DEF LoadInv, FileInv, ModelInv, vars, loadVars, readerVars, heapVars, config
      <3> QED BY <3>1, <3>2 DEF LoadInv
    <2> QED BY <2>1, <2>2
  <1> QED BY <1>1, LoadInitInv, PTL DEF LoadSpec

(* Nothing is released twice and no exit of st_open, of the inventory tool *)
(* or of model_load leaks: what is live is what the caller is given.       *)
THEOREM EverythingIsReleased == LoadSpec => []ReleasedOnce
  <1>1. LoadInv => ReleasedOnce
    BY LoadInvFollows
  <1> QED BY <1>1, LoadInductive, PTL
-----------------------------------------------------------------------------
(* What the loader takes from the inventory.                               *)

\* A buffer is what the file holds at the place its line of the inventory names.
TakenFrom(w, lines, c, reading, k, buffer) ==
  LET want  == Wanted(c)[k]
      line  == Find(lines, want[1])
      e     == lines[line]
      bytes == BytesOf(w, e)
  IN  /\ line # 0 /\ e.dtype = "F32" /\ e.dims = want[2]
      /\ e.nbytes = Elements(e.dims) * DtypeSize["F32"]
      /\ ~(e.file_offset + e.nbytes > FileSize(w))
      /\ buffer = IF IsProjection(k) /\ reading = "TRANSPOSED"
                  THEN TransposeSquare(bytes, c.n_embd) ELSE bytes

Taken(k) == TakenFrom(file, inventory.lines, config, session.reading, k, model.buffers[k])

\* An inventory is the first lines of some table, or is not there.
IsInventory(i) ==
  \/ i = NoInventory
  \/ \E table, c : \E n \in -1 .. Len(table) : SomeSeq(table) /\ i = Written(table, c, n)

\* Strengthens LoadInv by what the tool wrote and what the loader has compared with it.
TakenInv ==
  /\ IsInventory(inventory)
  /\ pc \in {"weights", "tables", "tensors", "loaded"} =>
       ConfigStatus(config, inventory) = "OK" /\ file = session.load.weights
  /\ pc \in {"tensors", "loaded"} => \A k \in DOMAIN model.buffers : Taken(k)

\* Opening a file does not replace it.
LEMMA OpenKeepsFile == ASSUME StOpen PROVE UNCHANGED file
  BY DEF StOpen, StFopen, ReadHeader, BeginHeader, ReadEntry, ReadPair, EndPairs, EndEntries

\* Neither program's other steps touch what a tensor was taken by.
LEMMA TakenKept ==
  ASSUME TakenInv, UNCHANGED <<inventory, session, file>>,
         pc' \in {"weights", "tables", "tensors", "loaded"} =>
           pc \in {"weights", "tables", "tensors", "loaded"},
         pc' \in {"tensors", "loaded"} =>
           pc \in {"tensors", "loaded"} /\ model'.buffers = model.buffers
  PROVE  TakenInv'
  BY DEF TakenInv, IsInventory, Taken, config

\* The tool writes the first lines of its file's table.
LEMMA ToolWriteTaken ==
  ASSUME LoadInv, TakenInv, NEW n \in -1 .. Len(st.table), ToolWrite(n)
  PROVE  TakenInv'
  <1>1. inventory' = Written(st.table, session.tool.config, n) /\ pc' = "written" /\ SomeSeq(st.table)
    BY DEF ToolWrite, ToolExit, LoadInv, FileInv, IsStFile
  <1>2. IsInventory(inventory')
    BY <1>1 DEF IsInventory
  <1> QED BY <1>1, <1>2 DEF TakenInv, IsInventory

LEMMA CheckConfigTaken == ASSUME TakenInv, CheckConfig PROVE TakenInv'
  <1> DEFINE rc == ConfigStatus(config, inventory)
  <1>1. UNCHANGED <<session, inventory>> /\ (rc # "OK" => pc' = "failed")
        /\ (rc = "OK" => pc' = "weights" /\ file' = session.load.weights)
    BY DEF CheckConfig, LoadUnchanged, Fail, CallStOpen
  <1>2. rc' = rc
    BY <1>1 DEF config
  <1> HIDE DEF rc
  <1>3. rc = "OK" \/ pc' = "failed"
    BY <1>1
  <1> QED BY <1>1, <1>2, <1>3 DEF TakenInv, rc

LEMMA AllocTablesTaken ==
  ASSUME LoadInv, TakenInv, NEW records \in BOOLEAN, NEW layers \in BOOLEAN, AllocTables(records, layers)
  PROVE  TakenInv'
  <1>1. pc = "tables" /\ UNCHANGED <<session, inventory, file>> /\ model.buffers = <<>>
    BY DEF AllocTables, LoadUnchanged, LoadInv, ModelInv
  <1>2. \/ pc' = "failed"
        \/ pc' = "tensors" /\ model' = [model EXCEPT !.records = records, !.layers = layers]
    BY DEF AllocTables, Fail
  <1>3. pc' = "tensors" => model'.buffers = <<>>
    BY <1>1, <1>2 DEF LoadInv, ModelInv
  <1> QED BY <1>1, <1>2, <1>3 DEF TakenInv, IsInventory, config

\* What a longer sequence has where the shorter one had it.
LEMMA AppendedElements ==
  ASSUME NEW s, SomeSeq(s), NEW e
  PROVE  /\ \A j \in DOMAIN s : Append(s, e)[j] = s[j]
         /\ Append(s, e)[Len(s) + 1] = e
  <1>1. PICK S : s \in Seq(S)
    BY DEF SomeSeq
  <1> DEFINE T == S \cup {e}
  <1>2. s \in Seq(T) /\ e \in T
    BY <1>1, SeqMonotonic
  <1> HIDE DEF T
  <1>3. DOMAIN s = 1 .. Len(s)
    BY <1>2, LenProperties
  <1> QED BY <1>2, <1>3, AppendProperties

\* The tensor that is read now is taken from its line too.
LEMMA LoadTensorTaken ==
  ASSUME LoadInv, TakenInv, NEW mem \in BOOLEAN, NEW ok \in BOOLEAN, LoadTensor(mem, ok)
  PROVE  TakenInv'
  <1> DEFINE k     == Len(model.buffers) + 1
             want  == Wanted(config)[k]
             rc    == TensorMatches(want[1], want[2])
             t     == st.table[Find(st.table, want[1])]
             e     == inventory.lines[Find(inventory.lines, want[1])]
             bytes == BytesOf(file, t)
             buffer == IF IsProjection(k) /\ session.reading = "TRANSPOSED"
                       THEN TransposeSquare(bytes, config.n_embd) ELSE bytes
  <1>1. pc = "tensors" /\ UNCHANGED <<session, inventory, file>> /\ SomeSeq(model.buffers)
    BY DEF LoadTensor, LoadUnchanged, LoadInv, ModelInv
  <1>2. CASE pc' = "failed"
    BY <1>1, <1>2 DEF TakenInv, IsInventory
  <1>3. CASE pc' # "failed"
    <2>1. /\ rc = "OK" /\ ReadOutcomes(file, t, t.nbytes) = {"READ", "OK"} /\ pc' = pc
          /\ model' = [model EXCEPT !.buffers = Append(@, buffer), !.recorded = Record(k, want[1])]
      BY <1>3 DEF LoadTensor, Fail
    <2>2. /\ Find(inventory.lines, want[1]) # 0 /\ e.dtype = "F32" /\ e.dims = want[2]
          /\ t.nbytes = e.nbytes /\ t.file_offset = e.file_offset
          /\ Elements(want[2]) * DtypeSize["F32"] = t.nbytes
      BY <2>1 DEF TensorMatches
    <2>3. ~(t.file_offset + t.nbytes > FileSize(file))
      BY <2>1 DEF ReadOutcomes
    <2>4. bytes = BytesOf(file, e)
      BY <2>2 DEF BytesOf
    <2> HIDE DEF rc, bytes, t
    <2>5. model'.buffers = Append(model.buffers, buffer)
      BY <2>1 DEF LoadInv, ModelInv
    <2>6. DOMAIN model'.buffers = DOMAIN model.buffers \cup {k}
          /\ model'.buffers[k] = buffer /\ \A j \in DOMAIN model.buffers : model'.buffers[j] = model.buffers[j]
      BY <1>1, <2>5, AnyAppend, AppendedElements
    <2>7. TakenFrom(file, inventory.lines, config, session.reading, k, buffer)
      BY <2>2, <2>3, <2>4 DEF TakenFrom
    <2> HIDE DEF k, buffer
    <2>8. ASSUME NEW j \in DOMAIN model'.buffers
          PROVE  TakenFrom(file, inventory.lines, config, session.reading, j, model'.buffers[j])
      <3>1. CASE j = k
        BY <2>6, <2>7, <3>1
      <3>2. CASE j \in DOMAIN model.buffers
        BY <1>1, <2>6, <3>2 DEF TakenInv, Taken
      <3> QED BY <2>6, <2>8, <3>1, <3>2
    <2>9. \A j \in DOMAIN model'.buffers : Taken(j)'
      BY <1>1, <2>8 DEF Taken, config
    <2> QED BY <1>1, <2>1, <2>9 DEF TakenInv, IsInventory, config
  <1> QED BY <1>2, <1>3

LEMMA TakenNext == ASSUME LoadInv, TakenInv, [LoadNext]_vars PROVE TakenInv'
  <1>1. CASE StOpen /\ UNCHANGED loadVars
    BY <1>1, OpenKeepsFile, TakenKept DEF loadVars
  <1>2. CASE CallTool
    BY <1>2 DEF CallTool, TakenInv, IsInventory
  <1>3. CASE ToolOpened \/ (\E readable \in BOOLEAN : ToolConfig(readable)) \/ ToolCannotWrite
    BY <1>3, TakenKept DEF ToolOpened, ToolConfig, ToolCannotWrite, ToolExit
  <1>4. CASE CallLoad
    BY <1>4, TakenKept DEF CallLoad, LoadUnchanged
  <1>5. CASE WeightsOpened
    BY <1>5, TakenKept DEF WeightsOpened, LoadUnchanged, Fail
  <1>6. CASE LoadReturns \/ ModelFree
    BY <1>6, TakenKept DEF LoadReturns, ModelFree, LoadUnchanged
  <1>7. CASE UNCHANGED vars
    BY <1>7, TakenKept DEF vars, loadVars, readerVars
  <1>8. CASE \E n \in -1 .. Len(st.table) : ToolWrite(n)
    BY <1>8, ToolWriteTaken
  <1> QED BY <1>1, <1>2, <1>3, <1>4, <1>5, <1>6, <1>7, <1>8, CheckConfigTaken, AllocTablesTaken,
             LoadTensorTaken DEF LoadNext

(* Whatever files are replaced in between, what the loader has in a buffer *)
(* it took by a line of the inventory that agrees with the configuration.  *)
THEOREM TakenInductive == LoadSpec => [](LoadInv /\ TakenInv)
  <1>1. LoadInit => TakenInv
    BY DEF LoadInit, TakenInv, IsInventory
  <1>2. LoadInv /\ TakenInv /\ [LoadNext]_vars => TakenInv'
    BY TakenNext
  <1> QED BY <1>1, <1>2, LoadInductive, PTL DEF LoadSpec
-----------------------------------------------------------------------------
(* What the inventory says of a tensor that was taken.                     *)

\* Find answers with the first entry of that name.
LEMMA FoundFirst ==
  ASSUME NEW table, DOMAIN table \subseteq Nat \ {0}, NEW name
  PROVE  /\ Find(table, name) = 0 => \A k \in DOMAIN table : table[k].name # name
         /\ Find(table, name) # 0 =>
              /\ Find(table, name) \in DOMAIN table /\ table[Find(table, name)].name = name
              /\ \A j \in DOMAIN table : table[j].name = name => Find(table, name) <= j
  <1> DEFINE named == { k \in DOMAIN table : table[k].name = name }
  <1>1. CASE named = {}
    BY <1>1 DEF Find
  <1>2. CASE named # {}
    <2>1. named \in SUBSET Nat
      OBVIOUS
    <2> DEFINE f == CHOOSE k \in named : \A j \in named : k <= j
    <2>2. Find(table, name) = f
      BY <1>2 DEF Find
    <2>3. \E k \in named : \A j \in named : k <= j
      <3> HIDE DEF named
      <3> QED BY <1>2, <2>1, LeastElement
    <2>4. f \in named /\ \A j \in named : f <= j
      BY <2>3
    <2> HIDE DEF f
    <2> QED BY <2>2, <2>4
  <1> QED BY <1>1, <1>2

\* A line that is found is the line of the first tensor of that name in the table.
LEMMA FoundLine ==
  ASSUME NEW table, SomeSeq(table), NEW c, NEW n \in -1 .. Len(table), NEW name,
         Find(Written(table, c, n).lines, name) # 0
  PROVE  LET k == Find(table, name) IN
         /\ k = Find(Written(table, c, n).lines, name) /\ k \in DOMAIN table /\ n > 0
         /\ Written(table, c, n).lines[k] = LineOf(table, k, c) /\ table[k].name = name
  <1> DEFINE lines == [k \in 1 .. n |-> LineOf(table, k, c)]
             l == Find(lines, name)
             k == Find(table, name)
  <1>1. Written(table, c, n).lines = lines
    BY DEF Written
  <1>2. DOMAIN table = 1 .. Len(table) /\ Len(table) \in Nat
    BY AnyAppend
  <1>3. DOMAIN lines = 1 .. n /\ \A j \in 1 .. n : lines[j] = LineOf(table, j, c)
        /\ lines[j].name = table[j].name
    BY DEF LineOf
  <1> HIDE DEF lines
  <1>4. l \in 1 .. n /\ lines[l].name = name /\ \A j \in 1 .. n : lines[j].name = name => l <= j
    <2>1. DOMAIN lines \subseteq Nat \ {0}
      BY <1>3
    <2> QED BY <1>1, <1>3, <2>1, FoundFirst
  <1>5. l \in DOMAIN table /\ table[l].name = name /\ l # 0
    BY <1>2, <1>3, <1>4
  <1>6. k \in DOMAIN table /\ table[k].name = name /\ \A j \in DOMAIN table : table[j].name = name => k <= j
    <2>1. DOMAIN table \subseteq Nat \ {0}
      BY <1>2
    <2>2. k # 0
      BY <1>5, <2>1, FoundFirst
    <2> QED BY <2>1, <2>2, FoundFirst
  <1> HIDE DEF l, k
  <1>7. k = l
    <2>1. k <= l /\ k \in 1 .. Len(table) /\ l \in 1 .. n
      BY <1>2, <1>4, <1>5, <1>6
    <2>2. k \in 1 .. n
      BY <2>1
    <2>3. l <= k
      BY <1>3, <1>4, <1>6, <2>2
    <2> QED BY <2>1, <2>2, <2>3
  <1> QED BY <1>1, <1>3, <1>4, <1>6, <1>7 DEF l, k

\* A matrix of a layer and its bias.
LEMMA WantedMatrix ==
  ASSUME NEW c, c.n_layer \in Nat, NEW k \in DOMAIN Wanted(c), k > 4, Len(Wanted(c)[k][2]) = 2
  PROVE  /\ k + 1 \in DOMAIN Wanted(c)
         /\ \E a, b : /\ Wanted(c)[k][2] = <<a, b>> /\ Wanted(c)[k + 1][2] = <<b>>
                      /\ IF IsProjection(k) THEN a = b
                         ELSE <<a, b>> \in { <<c.n_embd, 3 * c.n_embd>>, <<c.n_embd, 4 * c.n_embd>>,
                                             <<4 * c.n_embd, c.n_embd>> }
  <1> DEFINE E == c.n_embd
             r == (k - 5) % 12
  <1>1. k \in 5 .. 4 + 12 * c.n_layer /\ DOMAIN Wanted(c) = 1 .. 4 + 12 * c.n_layer
    BY DEF Wanted
  <1>2. r \in 0 .. 11 /\ Wanted(c)[k][2] = PerLayer(E)[r + 1][2]
    BY <1>1 DEF Wanted
  <1>3. IsProjection(k) <=> r = 4
    BY <1>1 DEF IsProjection
  <1>4. r \in {2, 4, 8, 10}
    <2> HIDE DEF r
    <2>1. Len(PerLayer(E)[r + 1][2]) = 2
      BY <1>2
    <2> QED BY <1>2, <2>1 DEF PerLayer
  <1>5. k + 1 \in DOMAIN Wanted(c) /\ (k + 1 - 5) % 12 = r + 1
    <2>1. k - 5 = 12 * ((k - 5) \div 12) + r
      BY <1>1
    <2> DEFINE l == (k - 5) \div 12
    <2>2. l \in Int /\ r \in Int
      BY <1>1
    <2> HIDE DEF l, r
    <2>3. k = 12 * l + r + 5 /\ k <= 4 + 12 * c.n_layer
      BY <1>1, <2>1, <2>2 DEF l
    <2>4. k + 1 <= 4 + 12 * c.n_layer
      BY <1>1, <1>4, <2>2, <2>3
    <2>5. (k + 1 - 5) % 12 = r + 1
      BY <1>4, <2>2, <2>3
    <2> QED BY <1>1, <2>4, <2>5
  <1>6. Wanted(c)[k + 1][2] = PerLayer(E)[r + 2][2]
    <2>1. Wanted(c)[k + 1][2] = PerLayer(E)[((k + 1 - 5) % 12) + 1][2]
      BY <1>1, <1>5 DEF Wanted
    <2> HIDE DEF r
    <2> QED BY <1>4, <1>5, <2>1
  <1> HIDE DEF r, E
  <1>7. CASE r = 2
    BY <1>2, <1>3, <1>5, <1>6, <1>7 DEF PerLayer, E
  <1>8. CASE r = 4
    BY <1>2, <1>3, <1>5, <1>6, <1>8 DEF PerLayer, E
  <1>9. CASE r = 8
    BY <1>2, <1>3, <1>5, <1>6, <1>9 DEF PerLayer, E
  <1>10. CASE r = 10
    BY <1>2, <1>3, <1>5, <1>6, <1>10 DEF PerLayer, E
  <1> QED BY <1>4, <1>7, <1>8, <1>9, <1>10

\* The rest of the inventory agrees with the configuration that is loaded.
LEMMA SameConfig ==
  ASSUME NEW table, NEW c, NEW n \in -1 .. Len(table), NEW d,
         ConfigStatus(d, Written(table, c, n)) = "OK"
  PROVE  /\ n >= 0 /\ LoadFields \subseteq DOMAIN d
         /\ c.n_embd = d.n_embd /\ c.vocab_size = d.vocab_size
  <1> DEFINE i == Written(table, c, n)
  <1>1. /\ LoadFields \subseteq DOMAIN d
        /\ \A f \in {"n_embd", "n_layer", "n_head", "vocab_size"} :
             f \in DOMAIN i.config /\ i.config[f] = d[f]
    <2> HIDE DEF i
    <2> QED BY DEF ConfigStatus, i
  <1>2. i.config = IF n < 0 THEN <<>> ELSE [f \in ToolFields |-> c[f]]
    BY DEF Written
  <1> HIDE DEF i
  <1>3. ~(n < 0)
    BY <1>1, <1>2
  <1> QED BY <1>1, <1>2, <1>3 DEF ToolFields

\* The head is tied to no tensor but the one that has its extents.
LEMMA TiedToEmbedding ==
  ASSUME NEW table, SomeSeq(table), NEW c, NEW k \in DOMAIN table,
         table[k].dims = <<c.vocab_size, c.n_embd>>
  PROVE  TiedTo(table, c) \in {"null", table[k].name}
  <1> DEFINE vocab == { j \in DOMAIN table : table[j].dims \in {<<c.vocab_size, c.n_embd>>,
                                                                <<c.n_embd, c.vocab_size>>} }
  <1>1. IsFiniteSet(vocab)
    <2>1. DOMAIN table = 1 .. Len(table) /\ Len(table) \in Int
      BY AnyAppend
    <2>2. IsFiniteSet(DOMAIN table)
      BY <2>1, FS_Interval
    <2> QED BY <2>2, FS_Subset
  <1>2. k \in vocab
    OBVIOUS
  <1>3. TiedTo(table, c) \in {"null", table[CHOOSE j \in vocab : TRUE].name}
    BY DEF TiedTo
  <1>4. CASE Cardinality(vocab) = 1
    <2>1. vocab = {k}
      <3> HIDE DEF vocab
      <3> QED BY <1>1, <1>2, <1>4, FS_Singleton
    <2>2. (CHOOSE j \in vocab : TRUE) = k
      BY <2>1
    <2> QED BY <1>3, <2>2
  <1>5. CASE Cardinality(vocab) # 1
    BY <1>5 DEF TiedTo
  <1> QED BY <1>4, <1>5

\* A matrix whose bias is as long as its second axis alone.
LEMMA PinnedByBias ==
  ASSUME NEW table, NEW k, NEW j, NEW c, NEW a, NEW b, j # 0,
         table[k].dims = <<a, b>>, table[j].dims = <<b>>,
         table[k].name \in DOMAIN Bias, Find(table, Bias[table[k].name]) = j
  PROVE  LineOf(table, k, c).orientation = IF a = b THEN "unresolved_by_shape"
                                           ELSE "axis0_input_axis1_output"
  <1>1. Len(<<a, b>>) = 2 /\ Len(<<b>>) = 1 /\ <<a, b>>[1] = a /\ <<a, b>>[2] = b /\ <<b>>[1] = b
    OBVIOUS
  <1>2. LineOf(table, k, c).orientation = Orientation(table, table[k], c)
    BY DEF LineOf
  <1> QED BY <1>1, <1>2 DEF Orientation

\* The embedding is the first tensor.
LEMMA WantedFirst ==
  ASSUME NEW c, 1 \in DOMAIN Wanted(c)
  PROVE  Wanted(c)[1] = <<"wte.weight", <<c.vocab_size, c.n_embd>>>>
  <1> DEFINE E == c.n_embd
             four == << <<"wte.weight", <<c.vocab_size, E>>>>, <<"wpe.weight", <<c.n_ctx, E>>>>,
                        <<"ln_f.weight", <<E>>>>, <<"ln_f.bias", <<E>>>> >>
             name(k) == "h." \o ToString((k - 5) \div 12) \o "." \o PerLayer(E)[((k - 5) % 12) + 1][1]
             rest(k) == <<name(k), PerLayer(E)[((k - 5) % 12) + 1][2]>>
  <1>1. Wanted(c) = [k \in 1 .. 4 + 12 * c.n_layer |-> IF k <= 4 THEN four[k] ELSE rest(k)]
    BY DEF Wanted
  <1>2. four[1] = <<"wte.weight", <<c.vocab_size, c.n_embd>>>>
    OBVIOUS
  <1> HIDE DEF rest, four
  <1>3. Wanted(c)[1] = IF 1 <= 4 THEN four[1] ELSE rest(1)
    BY <1>1
  <1> QED BY <1>2, <1>3

\* A loaded model was read as the inventory pins it.
LEMMA TakenInvFollows == ASSUME LoadInv, TakenInv PROVE ReadAsPinned
  <1> SUFFICES ASSUME pc = "loaded" PROVE ReadAsPinned
    BY DEF ReadAsPinned
  <1>1. /\ IsInventory(inventory) /\ ConfigStatus(config, inventory) = "OK"
        /\ \A k \in DOMAIN model.buffers : Taken(k)
    BY DEF TakenInv
  <1>2. inventory # NoInventory
    BY <1>1 DEF NoInventory, ConfigStatus
  <1>3. PICK table, c : \E n \in -1 .. Len(table) : SomeSeq(table) /\ inventory = Written(table, c, n)
    BY <1>1, <1>2 DEF IsInventory
  <1>4. PICK n \in -1 .. Len(table) : SomeSeq(table) /\ inventory = Written(table, c, n)
    BY <1>3
  <1>5. /\ n >= 0 /\ LoadFields \subseteq DOMAIN config
        /\ c.n_embd = config.n_embd /\ c.vocab_size = config.vocab_size
    BY <1>1, <1>4, SameConfig
  <1>6. config.n_layer \in Nat /\ config.n_embd \in Int /\ session \in Sessions
    <2>1. session \in Sessions /\ config.n_layer >= 0
      BY DEF LoadInv, ModelInv
    <2>2. config.n_layer \in Int /\ config.n_embd \in Int
      BY <1>5, <2>1, SessionAssumption DEF config, LoadFields
    <2> QED BY <2>1, <2>2
  <1>7. DOMAIN model.buffers = DOMAIN Wanted(config) /\ 1 \in DOMAIN Wanted(config)
    <2>1. DOMAIN Wanted(config) = 1 .. 4 + 12 * config.n_layer
      BY DEF Wanted
    <2>2. Len(model.buffers) = 4 + 12 * config.n_layer /\ SomeSeq(model.buffers)
      BY DEF LoadInv, ModelInv
    <2>3. DOMAIN model.buffers = 1 .. Len(model.buffers)
      BY <2>2, AnyAppend
    <2> QED BY <1>6, <2>1, <2>2, <2>3
  <1> DEFINE at(k) == Find(table, Wanted(config)[k][1])
  <1>8. ASSUME NEW k \in DOMAIN Wanted(config)
        PROVE  /\ at(k) \in DOMAIN table /\ at(k) # 0 /\ at(k) = Find(inventory.lines, Wanted(config)[k][1])
               /\ inventory.lines[at(k)] = LineOf(table, at(k), c)
               /\ table[at(k)].name = Wanted(config)[k][1] /\ table[at(k)].dims = Wanted(config)[k][2]
    <2>1. Find(inventory.lines, Wanted(config)[k][1]) # 0
          /\ inventory.lines[Find(inventory.lines, Wanted(config)[k][1])].dims = Wanted(config)[k][2]
      BY <1>1, <1>7 DEF Taken, TakenFrom
    <2>2. /\ at(k) = Find(inventory.lines, Wanted(config)[k][1]) /\ at(k) \in DOMAIN table
          /\ inventory.lines[at(k)] = LineOf(table, at(k), c) /\ table[at(k)].name = Wanted(config)[k][1]
      BY <1>4, <2>1, FoundLine
    <2>3. LineOf(table, at(k), c).dims = table[at(k)].dims
      BY DEF LineOf
    <2> QED BY <2>1, <2>2, <2>3
  <1> HIDE DEF at
  <1>9. inventory.tied \in {"null", "wte.weight"}
    <2>1. Wanted(config)[1] = <<"wte.weight", <<config.vocab_size, config.n_embd>>>>
      BY <1>7, WantedFirst
    <2>2. table[at(1)].name = "wte.weight" /\ at(1) \in DOMAIN table
          /\ table[at(1)].dims = <<c.vocab_size, c.n_embd>>
      BY <1>5, <1>7, <1>8, <2>1
    <2>3. inventory.tied = TiedTo(table, c)
      BY <1>4, <1>5 DEF Written
    <2> QED BY <1>4, <2>2, <2>3, TiedToEmbedding
  <1>10. ASSUME NEW k \in DOMAIN Wanted(config), k > 4, Len(Wanted(config)[k][2]) = 2
         PROVE  inventory.lines[at(k)].orientation
                  = IF IsProjection(k) \/ config.n_embd = 0 THEN "unresolved_by_shape"
                    ELSE "axis0_input_axis1_output"
    <2>1. /\ k + 1 \in DOMAIN Wanted(config)
          /\ \E a, b : /\ Wanted(config)[k][2] = <<a, b>> /\ Wanted(config)[k + 1][2] = <<b>>
                       /\ IF IsProjection(k) THEN a = b
                          ELSE <<a, b>> \in { <<config.n_embd, 3 * config.n_embd>>,
                                              <<config.n_embd, 4 * config.n_embd>>,
                                              <<4 * config.n_embd, config.n_embd>> }
      BY <1>6, <1>10, WantedMatrix
    <2>2. PICK a, b : /\ Wanted(config)[k][2] = <<a, b>> /\ Wanted(config)[k + 1][2] = <<b>>
                      /\ IF IsProjection(k) THEN a = b
                         ELSE <<a, b>> \in { <<config.n_embd, 3 * config.n_embd>>,
                                             <<config.n_embd, 4 * config.n_embd>>,
                                             <<4 * config.n_embd, config.n_embd>> }
      BY <2>1
    <2>3. Wanted(config)[k][1] \in DOMAIN Bias /\ Bias[Wanted(config)[k][1]] = Wanted(config)[k + 1][1]
      BY <1>5, <1>6, <1>10, BiasAssumption DEF config, LoadFields
    <2>4. LineOf(table, at(k), c).orientation = IF a = b THEN "unresolved_by_shape"
                                                 ELSE "axis0_input_axis1_output"
      <3>1. table[at(k)].dims = <<a, b>> /\ table[at(k + 1)].dims = <<b>> /\ at(k + 1) # 0
            /\ table[at(k)].name = Wanted(config)[k][1]
        BY <1>8, <2>1, <2>2
      <3>2. Find(table, Bias[table[at(k)].name]) = at(k + 1)
        BY <2>3, <3>1 DEF at
      <3> QED BY <2>3, <3>1, <3>2, PinnedByBias
    <2>5. a = b <=> IsProjection(k) \/ config.n_embd = 0
      <3>1. CASE IsProjection(k)
        BY <2>2, <3>1
      <3>2. CASE ~IsProjection(k)
        <4> DEFINE E == config.n_embd
        <4>1. E \in Int /\ \/ a = E /\ b = 3 * E
                           \/ a = E /\ b = 4 * E
                           \/ a = 4 * E /\ b = E
          BY <1>6, <2>2, <3>2
        <4> HIDE DEF E
        <4>2. a = b <=> E = 0
          BY <4>1
        <4> QED BY <3>2, <4>2 DEF E
      <3> QED BY <3>1, <3>2
    <2> QED BY <1>8, <2>4, <2>5
  <1> QED BY <1>7, <1>8, <1>9, <1>10 DEF ReadAsPinned

\* What a model holds once it is loaded: every tensor the configuration wants, each from
\* the place the inventory names in the file that was loaded, with the extents they agree on.
LoadedAsInventoried ==
  pc = "loaded" =>
    /\ DOMAIN model.buffers = DOMAIN Wanted(config)
    /\ \A k \in DOMAIN model.buffers :
         TakenFrom(session.load.weights, inventory.lines, config, session.reading, k, model.buffers[k])

\* It follows too.
LEMMA LoadedFollows == ASSUME LoadInv, TakenInv PROVE LoadedAsInventoried
  <1> SUFFICES ASSUME pc = "loaded" PROVE LoadedAsInventoried
    BY DEF LoadedAsInventoried
  <1>1. DOMAIN model.buffers = DOMAIN Wanted(config)
    <2>1. DOMAIN Wanted(config) = 1 .. 4 + 12 * config.n_layer
      BY DEF Wanted
    <2>2. Len(model.buffers) = 4 + 12 * config.n_layer /\ SomeSeq(model.buffers)
      BY DEF LoadInv, ModelInv
    <2> QED BY <2>1, <2>2, AnyAppend
  <1> QED BY <1>1 DEF LoadedAsInventoried, TakenInv, Taken

(* The loader reads every matrix with the axes the inventory pinned, and   *)
(* multiplies by the head it names, whatever files it is given.            *)
THEOREM AxesAreAsPinned == LoadSpec => []ReadAsPinned
  <1>1. LoadInv /\ TakenInv => ReadAsPinned
    BY TakenInvFollows
  <1> QED BY <1>1, TakenInductive, PTL

(* A model that loads holds all of its tensors, each the bytes that the    *)
(* file it was loaded from has at the place the inventory names, in full   *)
(* and of the extents the inventory and the configuration agree on: a line *)
(* that is missing, of another type, shape, size or place loads nothing.   *)
THEOREM BuffersAreAsInventoried == LoadSpec => []LoadedAsInventoried
  <1>1. LoadInv /\ TakenInv => LoadedAsInventoried
    BY LoadedFollows
  <1> QED BY <1>1, TakenInductive, PTL

-----------------------------------------------------------------------------
(* The grammar: the nesting of a stretch of a header, and its parts.       *)

Opening == {<<"{">>, <<"[">>}
Closing == {<<"}">>, <<"]">>}
Comma == <<",">>

LEMMA TokensApart == Opening \cap Closing = {} /\ Comma \notin Opening /\ Comma \notin Closing
  <1>1. /\ <<"{">> # <<"}">> /\ <<"{">> # <<"]">> /\ <<"[">> # <<"}">> /\ <<"[">> # <<"]">>
        /\ <<",">> # <<"}">> /\ <<",">> # <<"]">> /\ <<",">> # <<"{">> /\ <<",">> # <<"[">>
    <2>1. \A a, b : a # b => <<a>> # <<b>>
      OBVIOUS
    <2> QED BY <2>1, Zenon
  <1> QED BY <1>1 DEF Opening, Closing, Comma

\* The places of a stretch that hold a token of a set.
Marked(h, S, i, k) == { j \in i .. k - 1 : h[j] \in S }

LEMMA NestIs ==
  ASSUME NEW h, NEW i, NEW k
  PROVE  Nest(h, i, k) = Cardinality(Marked(h, Opening, i, k)) - Cardinality(Marked(h, Closing, i, k))
  BY DEF Nest, Marked, Opening, Closing

LEMMA MarkedSum ==
  ASSUME NEW h, NEW S, NEW i \in Int, NEW k \in Int, NEW m \in Int, i <= k, k <= m
  PROVE  /\ Cardinality(Marked(h, S, i, m)) = Cardinality(Marked(h, S, i, k)) + Cardinality(Marked(h, S, k, m))
         /\ Cardinality(Marked(h, S, i, k)) \in Nat /\ Cardinality(Marked(h, S, k, m)) \in Nat
  <1>1. \A a, b \in Int : IsFiniteSet(Marked(h, S, a, b))
    <2> SUFFICES ASSUME NEW a \in Int, NEW b \in Int PROVE IsFiniteSet(Marked(h, S, a, b))
      OBVIOUS
    <2>1. IsFiniteSet(a .. b - 1)
      BY FS_Interval
    <2>2. Marked(h, S, a, b) \in SUBSET (a .. b - 1)
      BY DEF Marked
    <2> QED BY <2>1, <2>2, FS_Subset
  <1>2. Marked(h, S, i, m) = Marked(h, S, i, k) \cup Marked(h, S, k, m)
    BY DEF Marked
  <1>3. Marked(h, S, i, k) \cap Marked(h, S, k, m) = {}
    BY DEF Marked
  <1>4. Cardinality(Marked(h, S, i, k) \cap Marked(h, S, k, m)) = 0
    BY <1>3, FS_EmptySet
  <1>5. /\ IsFiniteSet(Marked(h, S, i, k)) /\ IsFiniteSet(Marked(h, S, k, m))
        /\ Cardinality(Marked(h, S, i, k)) \in Nat /\ Cardinality(Marked(h, S, k, m)) \in Nat
    BY <1>1, FS_CardinalityType
  <1>6. Cardinality(Marked(h, S, i, m)) = Cardinality(Marked(h, S, i, k)) + Cardinality(Marked(h, S, k, m)) - 0
    BY <1>2, <1>4, <1>5, FS_Union
  <1> QED BY <1>5, <1>6

\* The nesting adds up.
LEMMA NestSum ==
  ASSUME NEW h, NEW i \in Int, NEW k \in Int, NEW m \in Int, i <= k, k <= m
  PROVE  /\ Nest(h, i, m) = Nest(h, i, k) + Nest(h, k, m)
         /\ Nest(h, i, k) \in Int /\ Nest(h, k, m) \in Int
  <1> DEFINE o(a, b) == Cardinality(Marked(h, Opening, a, b))
             c(a, b) == Cardinality(Marked(h, Closing, a, b))
  <1>1. o(i, m) = o(i, k) + o(k, m) /\ o(i, k) \in Nat /\ o(k, m) \in Nat
    BY MarkedSum
  <1>2. c(i, m) = c(i, k) + c(k, m) /\ c(i, k) \in Nat /\ c(k, m) \in Nat
    BY MarkedSum
  <1>3. Nest(h, i, m) = o(i, m) - c(i, m) /\ Nest(h, i, k) = o(i, k) - c(i, k) /\ Nest(h, k, m) = o(k, m) - c(k, m)
    BY NestIs
  <1> HIDE DEF o, c
  <1> QED BY <1>1, <1>2, <1>3

\* Of no token, and of one.
LEMMA NestOne ==
  ASSUME NEW h, NEW i \in Int
  PROVE  /\ Nest(h, i, i) = 0
         /\ Nest(h, i, i + 1) = IF h[i] \in Opening THEN 1 ELSE IF h[i] \in Closing THEN -1 ELSE 0
  <1>1. \A S : Marked(h, S, i, i) = {} /\ Marked(h, S, i, i + 1) = IF h[i] \in S THEN {i} ELSE {}
    BY DEF Marked
  <1>2. Cardinality({}) = 0 /\ Cardinality({i}) = 1
    BY FS_EmptySet, FS_Singleton
  <1>3. h[i] \in Opening => h[i] \notin Closing
    BY TokensApart
  <1>4. Nest(h, i, i) = 0 - 0
    BY <1>1, <1>2, NestIs
  <1>5. Nest(h, i, i + 1) = (IF h[i] \in Opening THEN 1 ELSE 0) - (IF h[i] \in Closing THEN 1 ELSE 0)
    <2>1. Nest(h, i, i + 1) = Cardinality(Marked(h, Opening, i, i + 1)) - Cardinality(Marked(h, Closing, i, i + 1))
      BY NestIs
    <2>2. \A S : Cardinality(Marked(h, S, i, i + 1)) = IF h[i] \in S THEN 1 ELSE 0
      BY <1>1, <1>2
    <2> QED BY <2>1, <2>2
  <1> QED BY <1>3, <1>4, <1>5

\* A stretch whose brackets close, and one that is a single part besides.
Level(h, i, j) ==
  /\ i \in Nat /\ j \in Nat /\ i <= j /\ Nest(h, i, j) = 0
  /\ \A k \in i .. j : Nest(h, i, k) >= 0

Item(h, i, j) ==
  /\ Level(h, i, j) /\ i < j
  /\ \A k \in i .. j - 1 : h[k] = Comma => Nest(h, i, k) # 0

LEMMA LevelNone == ASSUME NEW h, NEW i \in Nat PROVE Level(h, i, i)
  <1>1. Nest(h, i, i) = 0 /\ \A k \in i .. i : k = i
    BY NestOne
  <1> QED BY <1>1 DEF Level

\* Two stretches one after the other.
LEMMA LevelConcat ==
  ASSUME NEW h, NEW i, NEW k, NEW j, Level(h, i, k), Level(h, k, j)
  PROVE  Level(h, i, j) /\ \A m \in k .. j : Nest(h, i, m) = Nest(h, k, m)
  <1>1. i \in Nat /\ k \in Nat /\ j \in Nat /\ i <= k /\ k <= j /\ Nest(h, i, k) = 0 /\ Nest(h, k, j) = 0
    BY DEF Level
  <1>2. ASSUME NEW m \in k .. j PROVE Nest(h, i, m) = Nest(h, k, m)
    <2>1. Nest(h, i, m) = Nest(h, i, k) + Nest(h, k, m) /\ Nest(h, k, m) \in Int
      BY <1>1, NestSum
    <2> QED BY <1>1, <2>1
  <1>3. ASSUME NEW m \in i .. j PROVE Nest(h, i, m) >= 0
    <2>1. CASE m <= k
      <3>1. m \in i .. k
        BY <1>1, <2>1
      <3> QED BY <3>1 DEF Level
    <2>2. CASE m > k
      <3>1. m \in k .. j
        BY <1>1, <2>2
      <3>2. Nest(h, k, m) >= 0
        BY <3>1 DEF Level
      <3> QED BY <1>2, <3>1, <3>2
    <2> QED BY <1>1, <2>1, <2>2
  <1>4. Nest(h, i, j) = 0 /\ i <= j
    BY <1>1, <1>2
  <1> QED BY <1>1, <1>2, <1>3, <1>4 DEF Level

LEMMA ItemConcat ==
  ASSUME NEW h, NEW i, NEW k, NEW j, Item(h, i, k), Item(h, k, j)
  PROVE  Item(h, i, j)
  <1>1. i \in Nat /\ k \in Nat /\ j \in Nat /\ i < k /\ k < j /\ Level(h, i, k) /\ Level(h, k, j)
    BY DEF Item, Level
  <1>2. Level(h, i, j) /\ \A m \in k .. j : Nest(h, i, m) = Nest(h, k, m)
    BY <1>1, LevelConcat
  <1>3. ASSUME NEW m \in i .. j - 1, h[m] = Comma PROVE Nest(h, i, m) # 0
    <2>1. CASE m < k
      <3>1. m \in i .. k - 1
        BY <1>1, <2>1
      <3> QED BY <1>3, <3>1 DEF Item
    <2>2. CASE m >= k
      <3>1. m \in k .. j - 1 /\ m \in k .. j
        BY <1>1, <2>2
      <3> QED BY <1>2, <1>3, <3>1 DEF Item
    <2> QED BY <1>1, <2>1, <2>2
  <1> QED BY <1>1, <1>2, <1>3 DEF Item

\* One token.
LEMMA ItemOfToken ==
  ASSUME NEW h, NEW i \in Nat, h[i] \notin Opening, h[i] \notin Closing
  PROVE  Level(h, i, i + 1) /\ (h[i] # Comma => Item(h, i, i + 1))
  <1>1. Nest(h, i, i) = 0 /\ Nest(h, i, i + 1) = 0
    BY NestOne
  <1>2. \A k \in i .. i + 1 : k = i \/ k = i + 1
    OBVIOUS
  <1>3. \A k \in i .. (i + 1) - 1 : k = i
    OBVIOUS
  <1> QED BY <1>1, <1>2, <1>3 DEF Level, Item

\* A stretch in brackets.
LEMMA ItemOfBrackets ==
  ASSUME NEW h, NEW i \in Nat, NEW j, h[i] \in Opening, h[j] \in Closing, Level(h, i + 1, j)
  PROVE  Item(h, i, j + 1)
  <1>1. i \in Nat /\ i + 1 \in Nat /\ j \in Nat /\ i + 1 <= j /\ Nest(h, i + 1, j) = 0
    BY DEF Level
  <1>2. Nest(h, i, i + 1) = 1 /\ Nest(h, i, i) = 0 /\ Nest(h, j, j + 1) = -1
    <2>1. h[j] \notin Opening
      BY TokensApart
    <2> QED BY <1>1, <2>1, NestOne
  <1>3. ASSUME NEW m \in i + 1 .. j PROVE Nest(h, i, m) = Nest(h, i + 1, m) + 1 /\ Nest(h, i + 1, m) >= 0
    <2>0. i \in Int /\ i + 1 \in Int /\ m \in Int /\ i <= i + 1 /\ i + 1 <= m
      BY <1>1
    <2>1. Nest(h, i, m) = Nest(h, i, i + 1) + Nest(h, i + 1, m) /\ Nest(h, i + 1, m) \in Int
      BY <2>0, NestSum
    <2>2. Nest(h, i + 1, m) >= 0
      BY DEF Level
    <2> QED BY <1>2, <2>1, <2>2
  <1>4. Nest(h, i, j + 1) = 0
    <2>0. i \in Int /\ j \in Int /\ j + 1 \in Int /\ i <= j /\ j <= j + 1
      BY <1>1
    <2>1. Nest(h, i, j + 1) = Nest(h, i, j) + Nest(h, j, j + 1)
      BY <2>0, NestSum
    <2>2. Nest(h, i, j) = 0 + 1
      BY <1>1, <1>3
    <2> QED BY <1>2, <2>1, <2>2
  <1>5. \A m \in i .. j + 1 : m = i \/ m = j + 1 \/ m \in i + 1 .. j
    BY <1>1
  <1>6. ASSUME NEW m \in i .. j + 1 PROVE Nest(h, i, m) >= 0 /\ (Nest(h, i, m) = 0 => m = i \/ m = j + 1)
    <2>1. CASE m = i \/ m = j + 1
      BY <1>2, <1>4, <2>1
    <2>2. CASE m \in i + 1 .. j
      <3>0. i + 1 \in Int /\ m \in Int /\ i + 1 <= m /\ m <= m
        BY <1>1, <2>2
      <3>a. Nest(h, i + 1, m) \in Int
        BY <3>0, NestSum
      <3>1. Nest(h, i, m) = Nest(h, i + 1, m) + 1 /\ Nest(h, i + 1, m) >= 0 /\ Nest(h, i + 1, m) \in Int
        BY <1>3, <2>2, <3>a
      <3> QED BY <3>1
    <2> QED BY <1>5, <2>1, <2>2
  <1>7. h[i] # Comma
    BY TokensApart
  <1>8. Level(h, i, j + 1)
    <2>1. j + 1 \in Nat /\ i <= j + 1
      BY <1>1
    <2> QED BY <1>4, <1>6, <2>1 DEF Level
  <1>9. ASSUME NEW m \in i .. (j + 1) - 1, h[m] = Comma PROVE Nest(h, i, m) # 0
    <2>1. m \in i .. j + 1 /\ m # j + 1 /\ m # i
      BY <1>1, <1>7, <1>9
    <2> QED BY <1>6, <2>1
  <1> QED BY <1>1, <1>8, <1>9 DEF Item

(* The parts of a stretch: from its first place, or past a cut, to the     *)
(* next cut, or its last place.                                            *)
Cuts(h, i, j) == { k \in i .. j - 1 : h[k] = Comma /\ Nest(h, i, k) = 0 }
Starts(C, i) == {i} \cup { k + 1 : k \in C }

IsEnd(C, j, a, b) == b \in C \cup {j} /\ b >= a /\ \A c \in C : c >= a => b <= c
EndOf(C, j, a) == CHOOSE b \in C \cup {j} : b >= a /\ \A c \in C : c >= a => b <= c
Split(C, i, j) == { <<a, EndOf(C, j, a)>> : a \in Starts(C, i) }

LEMMA PartsIs ==
  ASSUME NEW h, NEW i, NEW j, i # j
  PROVE  Parts(h, i, j) = Split(Cuts(h, i, j), i, j)
  BY DEF Parts, Cuts, EndOf, Comma, Split, Starts

LEMMA WithinStretch ==
  ASSUME NEW i \in Nat, NEW j \in Nat, i <= j, NEW C \in SUBSET (i .. j - 1)
  PROVE  (\A b \in C \cup {j} : b \in i .. j) /\ \A a \in Starts(C, i) : a \in i .. j
  BY DEF Starts

LEMMA EndIs ==
  ASSUME NEW i \in Nat, NEW j \in Nat, NEW C \in SUBSET (i .. j - 1), NEW a \in i .. j
  PROVE  /\ IsEnd(C, j, a, EndOf(C, j, a))
         /\ \A b : IsEnd(C, j, a, b) => b = EndOf(C, j, a)
  <1>0. \A b \in C \cup {j} : b \in i .. j
    BY WithinStretch
  <1> DEFINE S == { b \in C \cup {j} : b >= a }
  <1>1. S \in SUBSET Nat /\ j \in S
    <2>1. \A b \in i .. j : b \in Nat
      OBVIOUS
    <2>2. \A b \in C \cup {j} : b \in Nat
      BY <1>0, <2>1
    <2>3. j >= a
      OBVIOUS
    <2> QED BY <2>2, <2>3
  <1>2. PICK n \in S : \A m \in S : n <= m
    BY <1>1, LeastElement
  <1>3. n \in C \cup {j} /\ n >= a /\ \A c \in C : c >= a => n <= c
    BY <1>2
  <1>4. IsEnd(C, j, a, EndOf(C, j, a))
    BY <1>3 DEF EndOf, IsEnd
  <1>5. ASSUME NEW b, NEW d, IsEnd(C, j, a, b), IsEnd(C, j, a, d) PROVE b <= d
    <2>1. b \in i .. j /\ d \in i .. j /\ d >= a
      BY <1>0, <1>5 DEF IsEnd
    <2>2. CASE d \in C
      BY <1>5, <2>1, <2>2 DEF IsEnd
    <2>3. CASE d = j
      BY <2>1, <2>3
    <2> QED BY <1>5, <2>2, <2>3 DEF IsEnd
  <1>6. \A b : IsEnd(C, j, a, b) => b \in i .. j
    BY <1>0 DEF IsEnd
  <1>7. ASSUME NEW b, IsEnd(C, j, a, b) PROVE b = EndOf(C, j, a)
    <2>1. b <= EndOf(C, j, a) /\ EndOf(C, j, a) <= b
      BY <1>4, <1>5, <1>7
    <2>2. b \in i .. j /\ EndOf(C, j, a) \in i .. j
      BY <1>4, <1>6, <1>7
    <2> QED BY <2>1, <2>2
  <1> QED BY <1>4, <1>7

LEMMA PartsType ==
  ASSUME NEW h, NEW i \in Nat, NEW j \in Nat, i <= j, NEW s \in Parts(h, i, j)
  PROVE  s \in Nat \X Nat /\ s = <<s[1], s[2]>> /\ i <= s[1] /\ s[1] <= s[2] /\ s[2] <= j
  <1>1. CASE i = j
    BY <1>1 DEF Parts
  <1>2. CASE i < j
    <2> DEFINE C == Cuts(h, i, j)
    <2>0. C \in SUBSET (i .. j - 1)
      BY DEF Cuts
    <2>1. s \in Split(C, i, j)
      BY <1>2, PartsIs
    <2> HIDE DEF C
    <2>2. PICK a \in Starts(C, i) : s = <<a, EndOf(C, j, a)>>
      BY <2>1 DEF Split
    <2>3. a \in i .. j
      BY <2>0, WithinStretch
    <2>4. IsEnd(C, j, a, EndOf(C, j, a))
      BY <2>0, <2>3, EndIs
    <2>5. EndOf(C, j, a) \in i .. j /\ EndOf(C, j, a) >= a
      BY <2>0, <2>4, WithinStretch DEF IsEnd
    <2>6. s = <<s[1], s[2]>> /\ s[1] = a /\ s[2] = EndOf(C, j, a)
      BY <2>2
    <2> QED BY <2>3, <2>5, <2>6
  <1> QED BY <1>1, <1>2

\* A stretch with no cut.
LEMMA PartsOne ==
  ASSUME NEW h, NEW i, NEW j, Item(h, i, j)
  PROVE  Parts(h, i, j) = {<<i, j>>}
  <1>1. i \in Nat /\ j \in Nat /\ i < j
    BY DEF Item, Level
  <1>2. Cuts(h, i, j) = {}
    BY DEF Item, Cuts
  <1>3. EndOf({}, j, i) = j
    BY <1>1 DEF EndOf
  <1>4. Starts({}, i) = {i}
    BY DEF Starts
  <1>5. Parts(h, i, j) = Split({}, i, j)
    BY <1>1, <1>2, PartsIs
  <1> QED BY <1>3, <1>4, <1>5 DEF Split

\* A stretch cut at k.
LEMMA CutsJoin ==
  ASSUME NEW h, NEW i \in Nat, NEW k \in Nat, NEW j \in Nat, i < k, k + 1 < j,
         Nest(h, i, k) = 0, h[k] = Comma
  PROVE  /\ Cuts(h, i, j) = Cuts(h, i, k) \cup {k} \cup Cuts(h, k + 1, j)
         /\ \A m \in k + 1 .. j : Nest(h, i, m) = Nest(h, k + 1, m)
  <1>1. Nest(h, k, k + 1) = 0
    BY NestOne, TokensApart
  <1>2. Nest(h, i, k + 1) = 0
    <2>1. i <= k /\ k <= k + 1 /\ i \in Int /\ k \in Int /\ k + 1 \in Int
      OBVIOUS
    <2>2. Nest(h, i, k + 1) = Nest(h, i, k) + Nest(h, k, k + 1)
      BY <2>1, NestSum
    <2> QED BY <1>1, <2>2
  <1>3. ASSUME NEW m \in k + 1 .. j PROVE Nest(h, i, m) = Nest(h, k + 1, m)
    <2>1. i <= k + 1 /\ k + 1 <= m /\ i \in Int /\ m \in Int /\ k + 1 \in Int
      OBVIOUS
    <2>2. \A n \in Int : i <= n /\ n <= m => Nest(h, i, m) = Nest(h, i, n) + Nest(h, n, m) /\ Nest(h, n, m) \in Int
      BY <2>1, NestSum
    <2> QED BY <1>2, <2>1, <2>2
  <1>4. \A m : m \in i .. j - 1 <=> m \in i .. k - 1 \/ m = k \/ m \in k + 1 .. j - 1
    OBVIOUS
  <1>5. \A m \in k + 1 .. j - 1 : Nest(h, i, m) = Nest(h, k + 1, m)
    BY <1>3
  <1> QED BY <1>3, <1>4, <1>5 DEF Cuts

LEMMA PartsJoin ==
  ASSUME NEW h, NEW i \in Nat, NEW k \in Nat, NEW j \in Nat, i < k, k + 1 < j,
         Nest(h, i, k) = 0, h[k] = Comma
  PROVE  Parts(h, i, j) = Parts(h, i, k) \cup Parts(h, k + 1, j)
  <1> DEFINE A == Cuts(h, i, k)
             B == Cuts(h, k + 1, j)
             C == Cuts(h, i, j)
  <1>1. C = A \cup {k} \cup B
    BY CutsJoin
  <1>2. A \in SUBSET (i .. k - 1) /\ B \in SUBSET (k + 1 .. j - 1) /\ C \in SUBSET (i .. j - 1)
    BY DEF Cuts
  <1>n. i <= k /\ k + 1 <= j /\ i <= j /\ k + 1 \in Nat
    OBVIOUS
  <1>p. Parts(h, i, j) = Split(C, i, j) /\ Parts(h, i, k) = Split(A, i, k) /\ Parts(h, k + 1, j) = Split(B, k + 1, j)
    <2>1. i # j /\ i # k /\ k + 1 # j
      OBVIOUS
    <2> QED BY <2>1, PartsIs
  <1> HIDE DEF A, B, C
  <1>3. ASSUME NEW a \in i .. k PROVE EndOf(C, j, a) = EndOf(A, k, a)
    <2> DEFINE b == EndOf(A, k, a)
    <2>1. IsEnd(A, k, a, b)
      BY <1>2, EndIs
    <2> HIDE DEF b
    <2>2. b \in i .. k
      BY <1>2, <1>n, <2>1, WithinStretch DEF IsEnd
    <2>3. IsEnd(C, j, a, b)
      BY <1>1, <1>2, <2>1, <2>2 DEF IsEnd
    <2>4. a \in i .. j
      OBVIOUS
    <2>5. b = EndOf(C, j, a)
      BY <1>2, <2>3, <2>4, EndIs
    <2> QED BY <2>5 DEF b
  <1>4. ASSUME NEW a \in k + 1 .. j PROVE EndOf(C, j, a) = EndOf(B, j, a)
    <2> DEFINE b == EndOf(B, j, a)
    <2>1. IsEnd(B, j, a, b)
      BY <1>2, <1>n, EndIs
    <2> HIDE DEF b
    <2>2. \A c \in C : c >= a => c \in B
      BY <1>1, <1>2
    <2>3. IsEnd(C, j, a, b)
      BY <1>1, <2>1, <2>2 DEF IsEnd
    <2>4. a \in i .. j
      OBVIOUS
    <2>5. b = EndOf(C, j, a)
      BY <1>2, <2>3, <2>4, EndIs
    <2> QED BY <2>5 DEF b
  <1>5. \A a \in Starts(A, i) : a \in i .. k
    BY <1>2, <1>n, WithinStretch
  <1>6. \A a \in Starts(B, k + 1) : a \in k + 1 .. j
    BY <1>2, <1>n, WithinStretch
  <1>7. Split(A, i, k) = { <<a, EndOf(C, j, a)>> : a \in Starts(A, i) }
    BY <1>3, <1>5 DEF Split
  <1>8. Split(B, k + 1, j) = { <<a, EndOf(C, j, a)>> : a \in Starts(B, k + 1) }
    BY <1>4, <1>6 DEF Split
  <1>9. Starts(C, i) = Starts(A, i) \cup Starts(B, k + 1)
    BY <1>1 DEF Starts
  <1>10. Split(C, i, j) = Split(A, i, k) \cup Split(B, k + 1, j)
    BY <1>7, <1>8, <1>9 DEF Split
  <1> QED BY <1>10, <1>p

\* An item, a comma, and what is in line after it; and the other way round.
LEMMA RowAdds ==
  ASSUME NEW h, NEW i, NEW k, NEW b, b = k + 1, NEW j, Item(h, i, k), h[k] = Comma, Level(h, b, j), b < j
  PROVE  Level(h, i, j) /\ Parts(h, i, j) = {<<i, k>>} \cup Parts(h, b, j)
  <1>1. i \in Nat /\ k \in Nat /\ j \in Nat /\ i < k /\ Level(h, i, k) /\ Nest(h, i, k) = 0
    BY DEF Item, Level
  <1>2. Level(h, k, b)
    BY <1>1, ItemOfToken, TokensApart
  <1>3. Level(h, i, j)
    BY <1>1, <1>2, LevelConcat
  <1>4. Parts(h, i, j) = Parts(h, i, k) \cup Parts(h, b, j)
    BY <1>1, PartsJoin
  <1> QED BY <1>3, <1>4, PartsOne

MayAppend(h, i, k, b, j) ==
  Level(h, i, k) /\ i < k /\ b = k + 1 /\ h[k] = Comma /\ Item(h, b, j)
IsAppended(h, i, k, b, j) ==
  Level(h, i, j) /\ Parts(h, i, j) = Parts(h, i, k) \cup {<<b, j>>}

LEMMA RowAppends ==
  ASSUME NEW h, NEW i, NEW k, NEW b, NEW j, MayAppend(h, i, k, b, j)
  PROVE  IsAppended(h, i, k, b, j)
  <1>0. Level(h, i, k) /\ i < k /\ b = k + 1 /\ h[k] = Comma /\ Item(h, b, j)
    BY DEF MayAppend
  <1>1. /\ i \in Nat /\ k \in Nat /\ j \in Nat /\ b < j /\ Level(h, b, j)
        /\ Nest(h, i, k) = 0
    BY <1>0 DEF Item, Level
  <1>2. Level(h, k, b)
    BY <1>0, <1>1, ItemOfToken, TokensApart
  <1>3. Level(h, i, j)
    BY <1>0, <1>1, <1>2, LevelConcat
  <1>4. Parts(h, i, j) = Parts(h, i, k) \cup Parts(h, b, j)
    BY <1>0, <1>1, PartsJoin
  <1> QED BY <1>0, <1>1, <1>3, <1>4, PartsOne DEF IsAppended

(* Spans in order.                                                         *)
SpansOf(e) == { e[k] : k \in DOMAIN e }

Ascends(e, n) ==
  /\ n \in Nat /\ DOMAIN e = 1 .. n
  /\ \A k \in 1 .. n : e[k][1] \in Int
  /\ \A k, m \in 1 .. n : k < m => e[k][1] < e[m][1]

LEMMA AscendingCount ==
  ASSUME NEW e, NEW n, Ascends(e, n), NEW m \in 0 .. n
  PROVE  Cardinality({ e[k] : k \in 1 .. m }) = m
  <1> DEFINE S == { e[k] : k \in 1 .. m }
             f == [k \in 1 .. m |-> e[k]]
  <1>1. n \in Nat /\ m \in Nat /\ \A k \in 1 .. m : k \in 1 .. n
    BY DEF Ascends
  <1>2. \A k, l \in 1 .. m : e[k] = e[l] => k = l
    <2> SUFFICES ASSUME NEW k \in 1 .. m, NEW l \in 1 .. m, k # l PROVE e[k] # e[l]
      OBVIOUS
    <2>1. k \in 1 .. n /\ l \in 1 .. n /\ e[k][1] \in Int /\ e[l][1] \in Int
      BY <1>1 DEF Ascends
    <2>2. k < l \/ l < k
      OBVIOUS
    <2>3. e[k][1] < e[l][1] \/ e[l][1] < e[k][1]
      BY <2>1, <2>2 DEF Ascends
    <2> QED BY <2>1, <2>3
  <1>3. f \in Bijection(1 .. m, S)
    BY <1>2 DEF Bijection, Injection, Surjection, IsInjective
  <1>4. ExistsBijection(1 .. m, S)
    BY <1>3 DEF ExistsBijection
  <1> HIDE DEF S
  <1> QED BY <1>1, <1>4, FS_CountingElements DEF S

LEMMA AscendingInOrder ==
  ASSUME NEW e, NEW n, Ascends(e, n)
  PROVE  InOrder(SpansOf(e)) = [k \in 1 .. n |-> e[k]]
  <1> DEFINE S == SpansOf(e)
  <1>1. n \in Nat /\ S = { e[k] : k \in 1 .. n } /\ n \in 0 .. n
    BY DEF Ascends, SpansOf
  <1>2. Cardinality(S) = n
    BY <1>1, AscendingCount
  <1>3. ASSUME NEW k \in 1 .. n PROVE Cardinality({ t \in S : t[1] <= e[k][1] }) = k
    <2>1. \A l \in 1 .. n : e[l][1] <= e[k][1] <=> l <= k
      <3> SUFFICES ASSUME NEW l \in 1 .. n PROVE e[l][1] <= e[k][1] <=> l <= k
        OBVIOUS
      <3>1. e[l][1] \in Int /\ e[k][1] \in Int
        BY DEF Ascends
      <3>2. k < l => e[k][1] < e[l][1]
        BY DEF Ascends
      <3>3. l < k => e[l][1] < e[k][1]
        BY DEF Ascends
      <3> QED BY <1>1, <3>1, <3>2, <3>3
    <2>2. { t \in S : t[1] <= e[k][1] } = { e[l] : l \in 1 .. k }
      <3>1. \A l : l \in 1 .. k <=> l \in 1 .. n /\ l <= k
        BY <1>1
      <3> QED BY <1>1, <2>1, <3>1
    <2>3. k \in 0 .. n
      BY <1>1
    <2> QED BY <2>2, <2>3, AscendingCount
  <1>4. ASSUME NEW k \in 1 .. n PROVE (CHOOSE s \in S : Cardinality({ t \in S : t[1] <= s[1] }) = k) = e[k]
    <2>1. e[k] \in S
      BY <1>1
    <2>2. \A s \in S : Cardinality({ t \in S : t[1] <= s[1] }) = k => s = e[k]
      <3> SUFFICES ASSUME NEW s \in S, Cardinality({ t \in S : t[1] <= s[1] }) = k PROVE s = e[k]
        OBVIOUS
      <3>1. PICK l \in 1 .. n : s = e[l]
        BY <1>1
      <3> QED BY <1>3, <3>1
    <2> HIDE DEF S
    <2> QED BY <1>3, <2>1, <2>2
  <1> HIDE DEF S
  <1>5. InOrder(S) = [k \in 1 .. n |-> CHOOSE s \in S : Cardinality({ t \in S : t[1] <= s[1] }) = k]
    BY <1>2 DEF InOrder
  <1> QED BY <1>4, <1>5 DEF S

-----------------------------------------------------------------------------
(* The scanner only moves forward: the lemmas of TokenizerLoadProofs, with *)
(* this reader's statuses and tokens.                                      *)

Opens == {"value", "{", "["}
Results == [rc : {"OK", "BAD_JSON"}, at : Nat]

\* A text, as far as the scanner looks at it.
IsText(h) == Len(h) \in Nat /\ DOMAIN h = 1 .. Len(h)

\* One step of SkipValue, on the results s.
SkipStep(h, Scalars, s, p, depth, open) ==
  LET inner == s[<<IF open = "[" THEN p ELSE p + 2, depth + 1, "value">>]
  IN  IF open = "value"
      THEN IF depth > MaxDepth THEN Reject("BAD_JSON")
           ELSE IF \E k \in Scalars : IsA(h, p, k) THEN Read(p + 1)
           ELSE IF At(h, p, "{") \/ At(h, p, "[")
           THEN IF At(h, p + 1, CloseOf(h[p][1])) THEN Read(p + 2)
                ELSE s[<<p + 1, depth, h[p][1]>>]
           ELSE Reject("BAD_JSON")
      ELSE IF (open = "{" /\ ~KeyAt(h, p)) \/ inner.rc # "OK" THEN Reject("BAD_JSON")
      ELSE IF At(h, inner.at, ",") THEN s[<<inner.at + 1, depth, open>>]
      ELSE IF At(h, inner.at, CloseOf(open)) THEN Read(inner.at + 1)
      ELSE Reject("BAD_JSON")

IsSkip(h, Scalars, s) ==
  s = [x \in Nat \X Nat \X Opens |-> SkipStep(h, Scalars, s, x[1], x[2], x[3])]

LEMMA SkipValueIs ==
  ASSUME NEW h, NEW Scalars, NEW from
  PROVE  SkipValue(h, from, Scalars) = (CHOOSE s : IsSkip(h, Scalars, s))[<<from, 0, "value">>]
  BY DEF SkipValue, IsSkip, SkipStep, Opens

\* The same, on the results g of the later places, a place at a time.
After(g, p, depth, open) == IF p \in DOMAIN g THEN g[p][<<depth, open>>] ELSE Reject("BAD_JSON")

ValueFrom(h, Scalars, p, g, depth) ==
  IF depth > MaxDepth THEN Reject("BAD_JSON")
  ELSE IF \E k \in Scalars : IsA(h, p, k) THEN Read(p + 1)
  ELSE IF At(h, p, "{") \/ At(h, p, "[")
  THEN IF At(h, p + 1, CloseOf(h[p][1])) THEN Read(p + 2) ELSE After(g, p + 1, depth, h[p][1])
  ELSE Reject("BAD_JSON")

FirstInner(h, Scalars, p, g, depth, open) ==
  IF open = "[" THEN ValueFrom(h, Scalars, p, g, depth + 1) ELSE After(g, p + 2, depth + 1, "value")

ElementsFrom(h, Scalars, p, g, depth, open) ==
  LET inner == FirstInner(h, Scalars, p, g, depth, open)
  IN  IF (open = "{" /\ ~KeyAt(h, p)) \/ inner.rc # "OK" THEN Reject("BAD_JSON")
      ELSE IF At(h, inner.at, ",") THEN After(g, inner.at + 1, depth, open)
      ELSE IF At(h, inner.at, CloseOf(open)) THEN Read(inner.at + 1)
      ELSE Reject("BAD_JSON")

ScanFrom(h, Scalars, p, g) ==
  [do \in Nat \X Opens |-> IF do[2] = "value" THEN ValueFrom(h, Scalars, p, g, do[1])
                           ELSE ElementsFrom(h, Scalars, p, g, do[1], do[2])]

LEMMA TokenAt ==
  ASSUME NEW h, NEW p, NEW c, At(h, p, c)
  PROVE  p \in DOMAIN h /\ h[p][1] = c
  <1>1. \A x : x = <<c>> => x[1] = c
    OBVIOUS
  <1> QED BY <1>1, Zenon DEF At

LEMMA OpenAt ==
  ASSUME NEW h, NEW p, At(h, p, "{") \/ At(h, p, "[")
  PROVE  h[p][1] \in Opens
  <1>1. h[p][1] = "{" \/ h[p][1] = "["
    BY TokenAt
  <1> QED BY <1>1 DEF Opens

LEMMA AfterType ==
  ASSUME NEW to \in Nat, NEW k \in 0 .. to, NEW g \in [k + 1 .. to -> [Nat \X Opens -> Results]],
         NEW p \in Nat, NEW depth \in Nat, NEW open \in Opens
  PROVE  After(g, p, depth, open) \in Results
  <1>1. Reject("BAD_JSON") \in Results
    BY DEF Reject, Results
  <1>2. <<depth, open>> \in Nat \X Opens
    OBVIOUS
  <1>3. CASE p \in DOMAIN g
    <2>1. g[p] \in [Nat \X Opens -> Results]
      BY <1>3
    <2>2. g[p][<<depth, open>>] \in Results
      BY <1>2, <2>1
    <2> QED BY <1>3, <2>2 DEF After
  <1> QED BY <1>1, <1>3 DEF After

LEMMA ScanFromType ==
  ASSUME NEW h, NEW Scalars, NEW to \in Nat, NEW k \in 0 .. to,
         NEW g \in [k + 1 .. to -> [Nat \X Opens -> Results]]
  PROVE  ScanFrom(h, Scalars, k, g) \in [Nat \X Opens -> Results]
  <1>1. Reject("BAD_JSON") \in Results
    BY DEF Reject, Results
  <1>2. \A p \in Nat : Read(p) \in Results
    BY DEF Read, Results
  <1>3. \A p, d \in Nat : \A o \in Opens : After(g, p, d, o) \in Results
    BY AfterType
  <1>4. ASSUME NEW d \in Nat PROVE ValueFrom(h, Scalars, k, g, d) \in Results
    <2>1. At(h, k, "{") \/ At(h, k, "[") => h[k][1] \in Opens
      BY OpenAt
    <2>2. k \in Nat /\ k + 1 \in Nat /\ k + 2 \in Nat
      OBVIOUS
    <2> QED BY <1>1, <1>2, <1>3, <2>1, <2>2 DEF ValueFrom
  <1>5. ASSUME NEW d \in Nat, NEW o \in Opens PROVE ElementsFrom(h, Scalars, k, g, d, o) \in Results
    <2> DEFINE inner == FirstInner(h, Scalars, k, g, d, o)
    <2>0. "value" \in Opens
      BY DEF Opens
    <2>1. d + 1 \in Nat /\ k + 2 \in Nat /\ "value" \in Opens
      BY <2>0
    <2>2. inner \in Results
      BY <1>3, <1>4, <2>1 DEF FirstInner
    <2>3. inner.at \in Nat /\ inner.at + 1 \in Nat
      BY <2>2 DEF Results
    <2> HIDE DEF inner
    <2>4. Read(inner.at + 1) \in Results /\ After(g, inner.at + 1, d, o) \in Results
      BY <1>2, <1>3, <2>3
    <2> QED BY <1>1, <2>4 DEF ElementsFrom, inner
  <1>6. \A do \in Nat \X Opens : do[1] \in Nat /\ do[2] \in Opens
    OBVIOUS
  <1> QED BY <1>4, <1>5, <1>6 DEF ScanFrom

\* What a result says of the places.
Forward(r, p, n) == r.rc = "OK" => r.at > p /\ r.at <= n

LEMMA SkipExists ==
  ASSUME NEW h, NEW Scalars, IsText(h)
  PROVE  \E s : IsSkip(h, Scalars, s)
  <1> DEFINE to == Len(h) + 1
             V  == [Nat \X Opens -> Results]
             G  == UNION { [k + 1 .. to -> V] : k \in 0 .. to }
             F  == [kg \in (0 .. to) \X G |-> ScanFrom(h, Scalars, kg[1], kg[2])]
  <1>0. Len(h) \in Nat /\ to \in Nat /\ DOMAIN h = 1 .. Len(h)
    BY DEF IsText
  <1>1. \A k \in 0 .. to : \A g \in [k + 1 .. to -> V] : F[<<k, g>>] = ScanFrom(h, Scalars, k, g)
    <2> SUFFICES ASSUME NEW k \in 0 .. to, NEW g \in [k + 1 .. to -> V]
                 PROVE  F[<<k, g>>] = ScanFrom(h, Scalars, k, g)
      OBVIOUS
    <2>1. g \in G
      OBVIOUS
    <2> QED BY <2>1
  <1>2. \A k \in 0 .. to : \A g \in [k + 1 .. to -> V] : F[<<k, g>>] \in V
    <2> SUFFICES ASSUME NEW k \in 0 .. to, NEW g \in [k + 1 .. to -> V] PROVE F[<<k, g>>] \in V
      OBVIOUS
    <2> HIDE DEF F, G, to
    <2>1. ScanFrom(h, Scalars, k, g) \in V
      BY <1>0, ScanFromType
    <2> QED BY <1>1, <2>1
  <1> HIDE DEF to, V, F, G
  <1>3. PICK f \in [0 .. to -> V] : \A k \in 0 .. to : f[k] = F[<<k, [j \in k + 1 .. to |-> f[j]]>>]
    <2>1. 0 \in Int /\ to \in Int /\ LaterStaysIn(0, to, V, F)
      BY <1>0, <1>2 DEF LaterStaysIn
    <2>2. \E f : SolvesByLater(f, 0, to, V, F)
      BY <2>1, CourseOfValues
    <2> QED BY <2>2 DEF SolvesByLater
  <1> DEFINE g(k) == [j \in k + 1 .. to |-> f[j]]
             r(p, d, o) == IF p \in 0 .. to THEN f[p][<<d, o>>] ELSE Reject("BAD_JSON")
             s == [x \in Nat \X Nat \X Opens |-> r(x[1], x[2], x[3])]
  <1>4. ASSUME NEW k \in 0 .. to
        PROVE  g(k) \in [k + 1 .. to -> V] /\ f[k] = ScanFrom(h, Scalars, k, g(k))
    <2>1. g(k) \in [k + 1 .. to -> V]
      <3>1. \A j \in k + 1 .. to : j \in 0 .. to
        OBVIOUS
      <3> QED BY <1>3, <3>1
    <2> QED BY <1>1, <1>3, <2>1
  <1>5. \A p \in Nat, d \in Nat, o \in Opens : s[<<p, d, o>>] = r(p, d, o)
    OBVIOUS
  <1>6. ASSUME NEW k \in 0 .. to, NEW p \in Nat, p > k, NEW d, NEW o
        PROVE  After(g(k), p, d, o) = r(p, d, o)
    <2>1. p \in k + 1 .. to <=> p \in 0 .. to
      BY <1>0, <1>6
    <2>2. DOMAIN g(k) = k + 1 .. to /\ (p \in k + 1 .. to => g(k)[p] = f[p])
      OBVIOUS
    <2> HIDE DEF g
    <2> QED BY <2>1, <2>2 DEF After
  <1>7. ASSUME NEW p \in Nat, NEW d \in Nat, NEW o \in Opens PROVE r(p, d, o) \in Results
    <2>1. Reject("BAD_JSON") \in Results
      BY DEF Reject, Results
    <2>2. p \in 0 .. to => f[p] \in [Nat \X Opens -> Results]
      BY <1>3 DEF V
    <2>3. <<d, o>> \in Nat \X Opens
      OBVIOUS
    <2> QED BY <2>1, <2>2, <2>3
  <1>8. ASSUME NEW k \in 0 .. to, NEW d \in Nat
        PROVE  /\ r(k, d, "value") = ValueFrom(h, Scalars, k, g(k), d)
               /\ \A o \in Opens : o # "value" => r(k, d, o) = ElementsFrom(h, Scalars, k, g(k), d, o)
    <2> HIDE DEF g
    <2>1. f[k] = ScanFrom(h, Scalars, k, g(k))
      BY <1>4
    <2>2. "value" \in Opens /\ \A o \in Opens : <<d, o>> \in Nat \X Opens
      BY DEF Opens
    <2> QED BY <2>1, <2>2 DEF ScanFrom
  <1> HIDE DEF g, r
  <1>9. ASSUME NEW k \in 0 .. to, NEW d \in Nat
        PROVE  r(k, d, "value") = SkipStep(h, Scalars, s, k, d, "value")
    <2>1. k + 1 \in Nat /\ k + 1 > k
      OBVIOUS
    <2>2. At(h, k, "{") \/ At(h, k, "[") => h[k][1] \in Opens
      BY OpenAt
    <2>3. At(h, k, "{") \/ At(h, k, "[") => After(g(k), k + 1, d, h[k][1]) = s[<<k + 1, d, h[k][1]>>]
      <3>1. \A o \in Opens : After(g(k), k + 1, d, o) = s[<<k + 1, d, o>>]
        <4> HIDE DEF s
        <4> QED BY <1>5, <1>6, <2>1
      <3> QED BY <2>2, <3>1
    <2> HIDE DEF s
    <2> QED BY <1>8, <2>3 DEF ValueFrom, SkipStep
  <1>10. \A k \in 0 .. to : \A d \in Nat : \A o \in Opens : Forward(r(k, d, o), k, to)
    <2> DEFINE S == { k \in 0 .. to : \A d \in Nat : \A o \in Opens : Forward(r(k, d, o), k, to) }
    <2>1. ASSUME NEW k \in 0 .. to, \A j \in k + 1 .. to : j \in S PROVE k \in S
      <3>1. ASSUME NEW p \in Nat, p > k, NEW d \in Nat, NEW o \in Opens PROVE Forward(r(p, d, o), k, to)
        <4>1. CASE p \in 0 .. to
          <5>1. p \in S
            BY <2>1, <3>1, <4>1, <1>0
          <5>2. r(p, d, o) \in Results /\ Forward(r(p, d, o), p, to)
            BY <1>7, <5>1
          <5> QED BY <3>1, <5>2 DEF Forward, Results
        <4>2. CASE p \notin 0 .. to
          BY <4>2 DEF r, Reject, Forward
        <4> QED BY <4>1, <4>2
      <3>2. ASSUME NEW d \in Nat PROVE Forward(r(k, d, "value"), k, to)
        <4>1. At(h, k, "{") \/ At(h, k, "[")
                => Forward(After(g(k), k + 1, d, h[k][1]), k, to)
          <5>1. k + 1 \in Nat /\ k + 1 > k
            OBVIOUS
          <5>2. At(h, k, "{") \/ At(h, k, "[") => h[k][1] \in Opens
            BY OpenAt
          <5>3. \A o \in Opens : Forward(After(g(k), k + 1, d, o), k, to)
            BY <1>6, <3>1, <5>1
          <5> QED BY <5>2, <5>3
        <4>2. (\E j \in Scalars : IsA(h, k, j)) => Forward(Read(k + 1), k, to)
          BY <1>0 DEF IsA, Forward, Read, to
        <4>3. \A c : At(h, k + 1, c) => Forward(Read(k + 2), k, to)
          BY <1>0 DEF At, Forward, Read, to
        <4>4. Forward(Reject("BAD_JSON"), k, to)
          BY DEF Forward, Reject
        <4>5. Forward(ValueFrom(h, Scalars, k, g(k), d), k, to)
          BY <4>1, <4>2, <4>3, <4>4 DEF ValueFrom
        <4> QED BY <1>8, <4>5
      <3>3. ASSUME NEW d \in Nat, NEW o \in Opens, o # "value" PROVE Forward(r(k, d, o), k, to)
        <4> DEFINE inner == FirstInner(h, Scalars, k, g(k), d, o)
        <4>0. "value" \in Opens
          BY DEF Opens
        <4>1. d + 1 \in Nat /\ k + 2 \in Nat /\ k + 2 > k /\ "value" \in Opens
          BY <1>0, <4>0
        <4>2. inner = (IF o = "[" THEN r(k, d + 1, "value") ELSE r(k + 2, d + 1, "value"))
          BY <1>6, <1>8, <4>1 DEF FirstInner
        <4>3. inner \in Results /\ Forward(inner, k, to)
          BY <1>7, <3>1, <3>2, <4>1, <4>2
        <4> HIDE DEF inner
        <4>4. inner.at \in Nat /\ (inner.rc = "OK" => inner.at > k)
          BY <4>3 DEF Results, Forward
        <4>5. inner.rc = "OK" => Forward(After(g(k), inner.at + 1, d, o), k, to)
          <5>1. inner.rc = "OK" => inner.at + 1 \in Nat /\ inner.at + 1 > k
            BY <4>4
          <5> QED BY <1>6, <3>1, <5>1
        <4>6. \A c : inner.rc = "OK" /\ At(h, inner.at, c) => Forward(Read(inner.at + 1), k, to)
          BY <1>0, <4>4 DEF At, Forward, Read, to
        <4>7. Forward(Reject("BAD_JSON"), k, to)
          BY DEF Forward, Reject
        <4>8. Forward(ElementsFrom(h, Scalars, k, g(k), d, o), k, to)
          BY <4>5, <4>6, <4>7 DEF ElementsFrom, inner
        <4> QED BY <1>8, <3>3, <4>8
      <3> QED BY <3>2, <3>3
    <2> HIDE DEF S
    <2>2. \A k \in 0 .. to : k \in S
      <3>1. 0 \in Int /\ to \in Int
        BY <1>0
      <3> QED BY <2>1, <3>1, DownwardInduction
    <2> QED BY <2>2 DEF S
  <1>11. ASSUME NEW k \in 0 .. to, NEW d \in Nat, NEW o \in Opens, o # "value"
         PROVE  r(k, d, o) = SkipStep(h, Scalars, s, k, d, o)
    <2> DEFINE inner == FirstInner(h, Scalars, k, g(k), d, o)
               value == IF o = "[" THEN k ELSE k + 2
    <2>0. "value" \in Opens
      BY DEF Opens
    <2>1. d + 1 \in Nat /\ k + 2 \in Nat /\ k + 2 > k /\ "value" \in Opens /\ k \in Nat
      BY <1>0, <2>0
    <2>2. inner = r(value, d + 1, "value") /\ value \in Nat
      BY <1>6, <1>8, <2>1 DEF FirstInner
    <2>3. inner = s[<<value, d + 1, "value">>]
      BY <1>5, <2>1, <2>2
    <2>4. inner \in Results /\ Forward(inner, k, to)
      <3>1. r(k + 2, d + 1, "value") \in Results /\ Forward(r(k + 2, d + 1, "value"), k, to)
        <4>1. CASE k + 2 \in 0 .. to
          <5>1. Forward(r(k + 2, d + 1, "value"), k + 2, to)
            BY <1>10, <2>1, <4>1
          <5>2. r(k + 2, d + 1, "value") \in Results
            BY <1>7, <2>1
          <5> QED BY <1>0, <5>1, <5>2 DEF Forward, Results
        <4>2. CASE k + 2 \notin 0 .. to
          BY <1>7, <2>1, <4>2 DEF r, Forward, Reject
        <4> QED BY <4>1, <4>2
      <3>2. r(k, d + 1, "value") \in Results /\ Forward(r(k, d + 1, "value"), k, to)
        BY <1>7, <1>10, <2>1
      <3> QED BY <2>2, <3>1, <3>2
    <2> HIDE DEF inner
    <2>5. inner.rc = "OK" => After(g(k), inner.at + 1, d, o) = s[<<inner.at + 1, d, o>>]
      <3>1. inner.rc = "OK" => inner.at + 1 \in Nat /\ inner.at + 1 > k
        BY <2>4 DEF Results, Forward
      <3> QED BY <1>5, <1>6, <3>1
    <2> HIDE DEF s
    <2>6. ElementsFrom(h, Scalars, k, g(k), d, o) = SkipStep(h, Scalars, s, k, d, o)
      BY <1>11, <2>3, <2>5 DEF ElementsFrom, SkipStep, inner
    <2> QED BY <1>8, <1>11, <2>6
  <1>12. ASSUME NEW p \in Nat, p \notin 0 .. to, NEW d \in Nat, NEW o \in Opens
         PROVE  r(p, d, o) = SkipStep(h, Scalars, s, p, d, o)
    <2>0. p \notin DOMAIN h /\ r(p, d, o) = Reject("BAD_JSON")
      BY <1>0, <1>12 DEF r, to
    <2>1. CASE o = "value"
      <3> HIDE DEF s
      <3> QED BY <2>0, <2>1 DEF SkipStep, At, IsA
    <2>2. CASE o = "["
      <3>1. s[<<p, d + 1, "value">>].rc # "OK"
        <4>0. "value" \in Opens
          BY DEF Opens
        <4>1. d + 1 \in Nat /\ "value" \in Opens
          BY <4>0
        <4>2. s[<<p, d + 1, "value">>] = r(p, d + 1, "value")
          BY <1>5, <4>1
        <4>3. r(p, d + 1, "value") = Reject("BAD_JSON")
          BY <1>12 DEF r
        <4> QED BY <4>2, <4>3 DEF Reject
      <3> HIDE DEF s
      <3> QED BY <2>0, <2>2, <3>1 DEF SkipStep
    <2>3. CASE o = "{"
      <3> HIDE DEF s
      <3> QED BY <2>0, <2>3 DEF SkipStep, KeyAt, IsA
    <2> QED BY <2>1, <2>2, <2>3 DEF Opens
  <1>13. \A p \in Nat, d \in Nat, o \in Opens : s[<<p, d, o>>] = SkipStep(h, Scalars, s, p, d, o)
    <2> SUFFICES ASSUME NEW p \in Nat, NEW d \in Nat, NEW o \in Opens
                 PROVE  r(p, d, o) = SkipStep(h, Scalars, s, p, d, o)
      BY <1>5
    <2> HIDE DEF s
    <2>1. CASE p \notin 0 .. to
      BY <1>12, <2>1
    <2>2. CASE p \in 0 .. to /\ o = "value"
      BY <1>9, <2>2
    <2>3. CASE p \in 0 .. to /\ o # "value"
      BY <1>11, <2>3
    <2> QED BY <2>1, <2>2, <2>3
  <1>14. IsSkip(h, Scalars, s)
    <2>1. s = [x \in Nat \X Nat \X Opens |-> s[<<x[1], x[2], x[3]>>]]
      BY <1>5
    <2> HIDE DEF s
    <2> QED BY <1>13, <2>1 DEF IsSkip
  <1> QED BY <1>14

\* Whatever satisfies the equation moves forward.
LEMMA SkipResults ==
  ASSUME NEW h, NEW Scalars, NEW s, IsText(h), IsSkip(h, Scalars, s)
  PROVE  \A p, depth \in Nat : \A open \in Opens :
           s[<<p, depth, open>>] \in Results /\ Forward(s[<<p, depth, open>>], p, Len(h) + 1)
  <1> DEFINE to == Len(h) + 1
             Good(p) == \A d \in Nat : \A o \in Opens :
                          s[<<p, d, o>>] \in Results /\ Forward(s[<<p, d, o>>], p, to)
             S == { p \in 0 .. to : Good(p) }
  <1>0. Len(h) \in Nat /\ to \in Nat /\ DOMAIN h = 1 .. Len(h) /\ 0 \in Int /\ to \in Int
    BY DEF IsText
  <1>1. \A p, d \in Nat : \A o \in Opens : s[<<p, d, o>>] = SkipStep(h, Scalars, s, p, d, o)
    BY DEF IsSkip
  <1>2. "value" \in Opens /\ \A o \in Opens : o \in {"value", "[", "{"}
    BY DEF Opens
  <1>r. \A p : Reject("BAD_JSON") \in Results /\ Forward(Reject("BAD_JSON"), p, to)
    BY DEF Reject, Results, Forward
  <1>3. ASSUME NEW p \in Nat, p \notin 0 .. to PROVE Good(p)
    <2> SUFFICES ASSUME NEW d \in Nat, NEW o \in Opens PROVE s[<<p, d, o>>] = Reject("BAD_JSON")
      BY <1>r
    <2>1. p \notin DOMAIN h
      BY <1>0, <1>3
    <2>2. \A e \in Nat : s[<<p, e, "value">>] = Reject("BAD_JSON")
      BY <1>1, <1>2, <2>1 DEF SkipStep, At, IsA
    <2>3. CASE o = "["
      <3>1. s[<<p, d + 1, "value">>] = Reject("BAD_JSON")
        BY <2>2
      <3>2. s[<<p, d, o>>] = SkipStep(h, Scalars, s, p, d, o)
        BY <1>1
      <3>3. s[<<p, d + 1, "value">>].rc # "OK"
        BY <3>1 DEF Reject
      <3> QED BY <2>3, <3>2, <3>3 DEF SkipStep
    <2>4. CASE o = "{"
      BY <1>1, <1>2, <2>1, <2>4 DEF SkipStep, KeyAt, IsA
    <2> QED BY <1>2, <2>2, <2>3, <2>4
  <1>4. ASSUME NEW k \in 0 .. to, \A j \in k + 1 .. to : j \in S PROVE k \in S
    <2> HIDE DEF to
    <2>0. k \in Nat /\ k + 1 \in Nat /\ k + 2 \in Nat
      BY <1>0
    <2>1. ASSUME NEW p \in Nat, p > k, NEW d \in Nat, NEW o \in Opens
          PROVE  s[<<p, d, o>>] \in Results /\ Forward(s[<<p, d, o>>], k, to)
      <3>1. Good(p)
        <4>1. CASE p \in 0 .. to
          <5>1. p \in S
            BY <1>0, <1>4, <2>1, <4>1
          <5> QED BY <5>1
        <4>2. CASE p \notin 0 .. to
          BY <1>3, <4>2
        <4> QED BY <4>1, <4>2
      <3>2. s[<<p, d, o>>] \in Results /\ Forward(s[<<p, d, o>>], p, to)
        BY <3>1
      <3> QED BY <1>0, <2>1, <3>2 DEF Forward, Results
    <2>2. ASSUME NEW d \in Nat
          PROVE  s[<<k, d, "value">>] \in Results /\ Forward(s[<<k, d, "value">>], k, to)
      <3>1. At(h, k, "{") \/ At(h, k, "[")
              => s[<<k + 1, d, h[k][1]>>] \in Results /\ Forward(s[<<k + 1, d, h[k][1]>>], k, to)
        <4>1. \A o \in Opens : s[<<k + 1, d, o>>] \in Results /\ Forward(s[<<k + 1, d, o>>], k, to)
          BY <2>0, <2>1
        <4> QED BY <4>1, OpenAt
      <3>2. (\E j \in Scalars : IsA(h, k, j)) => Read(k + 1) \in Results /\ Forward(Read(k + 1), k, to)
        BY <1>0, <2>0 DEF IsA, Forward, Read, Results, to
      <3>3. \A c : At(h, k + 1, c) => Read(k + 2) \in Results /\ Forward(Read(k + 2), k, to)
        BY <1>0, <2>0 DEF At, Forward, Read, Results, to
      <3>4. s[<<k, d, "value">>] = SkipStep(h, Scalars, s, k, d, "value")
        BY <1>1, <1>2, <2>0
      <3> QED BY <1>r, <3>1, <3>2, <3>3, <3>4 DEF SkipStep
    <2>3. ASSUME NEW d \in Nat, NEW o \in Opens, o # "value"
          PROVE  s[<<k, d, o>>] \in Results /\ Forward(s[<<k, d, o>>], k, to)
      <3> DEFINE inner == s[<<IF o = "[" THEN k ELSE k + 2, d + 1, "value">>]
      <3>1. inner \in Results /\ Forward(inner, k, to)
        <4>1. d + 1 \in Nat /\ k + 2 > k
          BY <2>0
        <4>2. s[<<k + 2, d + 1, "value">>] \in Results /\ Forward(s[<<k + 2, d + 1, "value">>], k, to)
          BY <1>2, <2>0, <2>1, <4>1
        <4>3. s[<<k, d + 1, "value">>] \in Results /\ Forward(s[<<k, d + 1, "value">>], k, to)
          BY <2>2, <4>1
        <4> QED BY <4>2, <4>3
      <3>2. s[<<k, d, o>>] = SkipStep(h, Scalars, s, k, d, o)
        BY <1>1, <2>0
      <3> HIDE DEF inner
      <3>3. inner.at \in Nat /\ (inner.rc = "OK" => inner.at > k)
        BY <3>1 DEF Results, Forward
      <3>4. inner.rc = "OK" => s[<<inner.at + 1, d, o>>] \in Results /\ Forward(s[<<inner.at + 1, d, o>>], k, to)
        <4>1. inner.rc = "OK" => inner.at + 1 \in Nat /\ inner.at + 1 > k
          BY <2>0, <3>3
        <4> QED BY <2>1, <4>1
      <3>5. \A c : inner.rc = "OK" /\ At(h, inner.at, c)
                   => Read(inner.at + 1) \in Results /\ Forward(Read(inner.at + 1), k, to)
        BY <1>0, <2>0, <3>3 DEF At, Forward, Read, Results, to
      <3> QED BY <1>r, <2>3, <3>2, <3>4, <3>5 DEF SkipStep, inner
    <2> QED BY <2>2, <2>3
  <1>5. \A k \in 0 .. to : k \in S
    <2> HIDE DEF S
    <2> QED BY <1>0, <1>4, DownwardInduction
  <1>6. \A p \in Nat : Good(p)
    <2> HIDE DEF Good
    <2> QED BY <1>3, <1>5
  <1> QED BY <1>6

\* A value that is skipped ends after it began.
LEMMA SkipMoves ==
  ASSUME NEW h, NEW Scalars, IsText(h), NEW from \in Nat
  PROVE  /\ SkipValue(h, from, Scalars) \in Results
         /\ Forward(SkipValue(h, from, Scalars), from, Len(h) + 1)
  <1> DEFINE s == CHOOSE x : IsSkip(h, Scalars, x)
  <1>1. IsSkip(h, Scalars, s)
    BY SkipExists
  <1>2. SkipValue(h, from, Scalars) = s[<<from, 0, "value">>]
    BY SkipValueIs
  <1>3. "value" \in Opens
    BY DEF Opens
  <1> HIDE DEF s
  <1> QED BY <1>1, <1>2, <1>3, SkipResults

(* The values of the grammar, by the depth they stand at.                  *)
\* The spans that are values, given those that are values a level deeper.
IsDeeper(h, Scalars, deeper, s) ==
  \/ \E kind \in Scalars : Single(h, s, kind)
  \/ Bracketed(h, s, "[") /\ \A e \in Inside(h, s) : e \in deeper
  \/ Bracketed(h, s, "{") /\ \A e \in Inside(h, s) : Keyed(h, e) /\ ValueOf(e) \in deeper

AreLayers(h, Scalars, g) ==
  g = [d \in Nat |-> { s \in Nat \X Nat : d <= MaxDepth /\ IsDeeper(h, Scalars, g[d + 1], s) }]

ValueStep(h, Scalars, v, s, depth) ==
  /\ depth <= MaxDepth
  /\ \/ \E kind \in Scalars : Single(h, s, kind)
     \/ Bracketed(h, s, "[") /\ \A e \in Inside(h, s) : v[<<e, depth + 1>>]
     \/ /\ Bracketed(h, s, "{")
        /\ \A e \in Inside(h, s) : Keyed(h, e) /\ v[<<ValueOf(e), depth + 1>>]

IsValues(h, Scalars, v) ==
  v = [x \in (Nat \X Nat) \X Nat |-> ValueStep(h, Scalars, v, x[1], x[2])]

LEMMA SkippedIs ==
  ASSUME NEW h, NEW span, NEW Scalars
  PROVE  IsSkipped(h, span, Scalars) = (CHOOSE v : IsValues(h, Scalars, v))[<<span, 0>>]
  BY DEF IsSkipped, IsValues, ValueStep

\* What is inside brackets are spans.
LEMMA InsideType ==
  ASSUME NEW h, NEW s \in Nat \X Nat, NEW open, Bracketed(h, s, open), NEW e \in Inside(h, s)
  PROVE  e \in Nat \X Nat /\ ValueOf(e) \in Nat \X Nat
  <1>1. s[1] + 1 \in Nat /\ s[2] - 1 \in Nat /\ s[1] + 1 <= s[2] - 1
    BY DEF Bracketed
  <1>2. e \in Parts(h, s[1] + 1, s[2] - 1)
    BY DEF Inside
  <1>3. e \in Nat \X Nat
    BY <1>1, <1>2, PartsType
  <1>4. e[1] + 2 \in Nat /\ e[2] \in Nat
    BY <1>3
  <1> QED BY <1>3, <1>4 DEF ValueOf

LEMMA LayersExist ==
  ASSUME NEW h, NEW Scalars
  PROVE  \E g : AreLayers(h, Scalars, g) /\ g \in [Nat -> SUBSET (Nat \X Nat)]
  <1> DEFINE to  == MaxDepth + 1
             V   == SUBSET (Nat \X Nat)
             Go  == 0 .. MaxDepth
             nxt == [d \in 0 .. to |-> d + 1]
             F   == [dv \in (0 .. to) \X V |-> { s \in Nat \X Nat : IsDeeper(h, Scalars, dv[2], s) }]
             e   == [d \in 0 .. to |-> {}]
  <1>0. MaxDepth \in Nat /\ to \in Nat /\ 0 \in Int /\ to \in Int
    BY ScanAssumption
  <1>1. LooksLater(0, to, Go, nxt)
    BY <1>0 DEF LooksLater
  <1>2. \A d \in 0 .. to : \A v \in V : F[<<d, v>>] = { s \in Nat \X Nat : IsDeeper(h, Scalars, v, s) }
    OBVIOUS
  <1>3. StaysIn(0, to, V, F, e)
    <2>1. \A d \in 0 .. to : e[d] \in V /\ \A v \in V : F[<<d, v>>] \in V
      BY <1>2
    <2> QED BY <2>1 DEF StaysIn
  <1>4. \A d \in 0 .. to : nxt[d] = d + 1 /\ e[d] = {}
    OBVIOUS
  <1>a. \A d \in 0 .. to : d \in Go <=> d <= MaxDepth
    BY <1>0
  <1>b. to = MaxDepth + 1
    OBVIOUS
  <1> HIDE DEF to, V, Go, nxt, F, e
  <1>5. PICK f : SolvesDownward(f, 0, to, V, Go, nxt, F, e)
    BY <1>0, <1>1, <1>3, DownwardRecursion
  <1> DEFINE g == [d \in Nat |-> IF d \in 0 .. to THEN f[d] ELSE {}]
  <1>6. ASSUME NEW d \in Nat
        PROVE  /\ g[d] \in V
               /\ g[d] = { s \in Nat \X Nat : d <= MaxDepth /\ IsDeeper(h, Scalars, g[d + 1], s) }
    <2>1. CASE d <= MaxDepth
      <3>1. d \in 0 .. to /\ d + 1 \in 0 .. to /\ d + 1 \in Nat
        BY <1>0, <1>b, <2>1
      <3>2. f[d] \in V /\ f[d + 1] \in V /\ f[d] = F[<<d, f[nxt[d]]>>]
        BY <1>5, <1>a, <2>1, <3>1 DEF SolvesDownward
      <3>3. g[d] = f[d] /\ g[d + 1] = f[d + 1]
        BY <3>1
      <3> QED BY <1>2, <1>4, <2>1, <3>1, <3>2, <3>3
    <2>2. CASE d > MaxDepth
      <3>1. g[d] = {}
        <4>1. CASE d \in 0 .. to
          <5>1. f[d] = e[d]
            <6>1. d \notin Go
              BY <1>0, <1>a, <2>2, <4>1
            <6> QED BY <1>5, <4>1, <6>1 DEF SolvesDownward
          <5> QED BY <1>4, <4>1, <5>1
        <4>2. CASE d \notin 0 .. to
          BY <4>2
        <4> QED BY <4>1, <4>2
      <3>2. ~(d <= MaxDepth)
        BY <1>0, <2>2
      <3> QED BY <3>1, <3>2 DEF V
    <2> QED BY <1>0, <2>1, <2>2
  <1>7. g = [d \in Nat |-> g[d]]
    OBVIOUS
  <1> HIDE DEF g
  <1>8. AreLayers(h, Scalars, g)
    BY <1>6, <1>7 DEF AreLayers
  <1>9. g \in [Nat -> SUBSET (Nat \X Nat)]
    BY <1>6, <1>7 DEF V
  <1> QED BY <1>8, <1>9

\* The grammar's values are the outermost layer.
LEMMA SkippedIsLayer ==
  ASSUME NEW h, NEW Scalars
  PROVE  \E g : /\ AreLayers(h, Scalars, g)
                /\ \A span \in Nat \X Nat : IsSkipped(h, span, Scalars) <=> span \in g[0]
  <1>1. PICK g : AreLayers(h, Scalars, g) /\ g \in [Nat -> SUBSET (Nat \X Nat)]
    BY LayersExist
  <1> DEFINE u == [x \in (Nat \X Nat) \X Nat |-> x[1] \in g[x[2]]]
  <1>2. \A s \in Nat \X Nat : \A d \in Nat :
          s \in g[d] <=> d <= MaxDepth /\ IsDeeper(h, Scalars, g[d + 1], s)
    BY <1>1 DEF AreLayers
  <1>3. \A s \in Nat \X Nat : \A d \in Nat : u[<<s, d>>] = (s \in g[d])
    OBVIOUS
  <1>4. ASSUME NEW s \in Nat \X Nat, NEW d \in Nat PROVE u[<<s, d>>] = ValueStep(h, Scalars, u, s, d)
    <2>0. d + 1 \in Nat
      OBVIOUS
    <2> HIDE DEF u
    <2>1. Bracketed(h, s, "[") =>
            ((\A e \in Inside(h, s) : e \in g[d + 1]) <=> \A e \in Inside(h, s) : u[<<e, d + 1>>])
      BY <1>3, <2>0, InsideType
    <2>2. Bracketed(h, s, "{") =>
            ((\A e \in Inside(h, s) : Keyed(h, e) /\ ValueOf(e) \in g[d + 1])
               <=> \A e \in Inside(h, s) : Keyed(h, e) /\ u[<<ValueOf(e), d + 1>>])
      BY <1>3, <2>0, InsideType
    <2>3. (s \in g[d]) <=> ValueStep(h, Scalars, u, s, d)
      BY <1>2, <2>1, <2>2 DEF ValueStep, IsDeeper
    <2>4. u[<<s, d>>] = (s \in g[d])
      BY <1>3
    <2>5. ValueStep(h, Scalars, u, s, d) \in BOOLEAN
      BY DEF ValueStep
    <2> QED BY <2>3, <2>4, <2>5
  <1>5. IsValues(h, Scalars, u)
    <2>1. u = [x \in (Nat \X Nat) \X Nat |-> u[<<x[1], x[2]>>]]
      OBVIOUS
    <2>2. \A x \in (Nat \X Nat) \X Nat : x[1] \in Nat \X Nat /\ x[2] \in Nat
      OBVIOUS
    <2> HIDE DEF u
    <2> QED BY <1>4, <2>1, <2>2, ZenonT(40) DEF IsValues
  <1> DEFINE v == CHOOSE x : IsValues(h, Scalars, x)
             l == [d \in Nat |-> { s \in Nat \X Nat : v[<<s, d>>] }]
  <1>6. IsValues(h, Scalars, v)
    <2> HIDE DEF u
    <2> QED BY <1>5
  <1>7. \A span : IsSkipped(h, span, Scalars) = v[<<span, 0>>]
    BY SkippedIs
  <1> HIDE DEF v, u
  <1>8. \A s \in Nat \X Nat : \A d \in Nat : v[<<s, d>>] = ValueStep(h, Scalars, v, s, d)
    BY <1>6 DEF IsValues
  <1>9. \A s \in Nat \X Nat : \A d \in Nat : s \in l[d] <=> v[<<s, d>>]
    OBVIOUS
  <1>10. ASSUME NEW s \in Nat \X Nat, NEW d \in Nat
         PROVE  v[<<s, d>>] <=> d <= MaxDepth /\ IsDeeper(h, Scalars, l[d + 1], s)
    <2>0. d + 1 \in Nat
      OBVIOUS
    <2> HIDE DEF l
    <2>1. Bracketed(h, s, "[") =>
            ((\A e \in Inside(h, s) : e \in l[d + 1]) <=> \A e \in Inside(h, s) : v[<<e, d + 1>>])
      BY <1>9, <2>0, InsideType
    <2>2. Bracketed(h, s, "{") =>
            ((\A e \in Inside(h, s) : Keyed(h, e) /\ ValueOf(e) \in l[d + 1])
               <=> \A e \in Inside(h, s) : Keyed(h, e) /\ v[<<ValueOf(e), d + 1>>])
      BY <1>9, <2>0, InsideType
    <2>3. ValueStep(h, Scalars, v, s, d) <=> d <= MaxDepth /\ IsDeeper(h, Scalars, l[d + 1], s)
      BY <2>1, <2>2 DEF ValueStep, IsDeeper
    <2> QED BY <1>8, <2>3
  <1>11. AreLayers(h, Scalars, l)
    <2>1. \A d \in Nat : l[d] = { s \in Nat \X Nat : d <= MaxDepth /\ IsDeeper(h, Scalars, l[d + 1], s) }
      <3>1. \A d \in Nat : l[d] = { s \in Nat \X Nat : v[<<s, d>>] }
        OBVIOUS
      <3> HIDE DEF l
      <3> QED BY <1>10, <3>1
    <2>2. l = [d \in Nat |-> l[d]]
      OBVIOUS
    <2> HIDE DEF l
    <2> QED BY <2>1, <2>2 DEF AreLayers
  <1> HIDE DEF l
  <1> QED BY <1>7, <1>9, <1>11

\* The two kinds of brackets.
Brace == "{"
Kinds == {Brace, "["}

\* A token that is none of the six, and one that is a bracket.
LEMMA ScalarPlain ==
  ASSUME NEW h, NEW p, h[p][1] \notin {"{", "}", "[", "]", ",", ":"}
  PROVE  h[p] \notin Opening /\ h[p] \notin Closing /\ h[p] # Comma
  <1>1. \A c : <<c>>[1] = c
    OBVIOUS
  <1>2. \A c \in {"{", "}", "[", "]", ",", ":"} : h[p] # <<c>>
    BY <1>1
  <1> QED BY <1>2 DEF Opening, Closing, Comma

LEMMA ColonPlain == <<":">> \notin Opening /\ <<":">> \notin Closing /\ <<":">> # Comma
  <1>1. \A a, b : a # b => <<a>> # <<b>>
    OBVIOUS
  <1>2. <<":">> # <<"{">> /\ <<":">> # <<"[">> /\ <<":">> # <<"}">> /\ <<":">> # <<"]">> /\ <<":">> # <<",">>
    BY <1>1, Zenon
  <1> QED BY <1>2 DEF Opening, Closing, Comma

LEMMA KindPlain ==
  ASSUME NEW h, NEW p, NEW kind \in {"str", "raw", "num"}, IsA(h, p, kind)
  PROVE  h[p] \notin Opening /\ h[p] \notin Closing /\ h[p] # Comma
  <1>1. h[p][1] \notin {"{", "}", "[", "]", ",", ":"}
    BY DEF IsA
  <1> QED BY <1>1, ScalarPlain

LEMMA ItemOfScalar ==
  ASSUME NEW h, NEW p \in Nat, NEW kind \in {"str", "raw", "num"}, IsA(h, p, kind)
  PROVE  Item(h, p, p + 1) /\ Single(h, <<p, p + 1>>, kind)
  BY KindPlain, ItemOfToken DEF Single

\* A key, its colon and its value.
LEMMA ItemOfKeyed ==
  ASSUME NEW h, NEW p \in Nat, NEW q, KeyAt(h, p), Item(h, p + 2, q)
  PROVE  Item(h, p, q) /\ Keyed(h, <<p, q>>) /\ ValueOf(<<p, q>>) = <<p + 2, q>>
  <1>1. Item(h, p, p + 1)
    BY ItemOfScalar DEF KeyAt
  <1>2. h[p + 1] = <<":">> /\ p + 1 \in Nat /\ (p + 1) + 1 = p + 2
    BY DEF KeyAt, At
  <1>3. Item(h, p + 1, p + 2)
    BY <1>2, ColonPlain, ItemOfToken
  <1>4. Item(h, p, q)
    BY <1>1, <1>3, ItemConcat
  <1>5. q > p + 2 /\ q \in Nat
    BY DEF Item, Level
  <1> QED BY <1>4, <1>5 DEF Keyed, ValueOf

\* A stretch between brackets.
LEMMA BracketTokens ==
  ASSUME NEW h, NEW p, NEW q, NEW open \in Kinds, At(h, p, open), At(h, q, CloseOf(open))
  PROVE  h[p] \in Opening /\ h[q] \in Closing /\ h[p][1] = open
  <1>1. \A c : <<c>>[1] = c
    OBVIOUS
  <1>2. open = "{" \/ open = "["
    BY DEF Kinds, Brace
  <1>3. h[p] = <<open>> /\ h[q] = <<CloseOf(open)>>
    BY DEF At
  <1> QED BY <1>1, <1>2, <1>3 DEF CloseOf, Opening, Closing

LEMMA ItemOfObject ==
  ASSUME NEW h, NEW p \in Nat, NEW i, i = p + 1, NEW q, NEW open \in Kinds,
         At(h, p, open), At(h, q, CloseOf(open)), Level(h, i, q)
  PROVE  /\ Item(h, p, q + 1) /\ Bracketed(h, <<p, q + 1>>, open)
         /\ Inside(h, <<p, q + 1>>) = Parts(h, i, q)
  <1>1. Item(h, p, q + 1)
    BY BracketTokens, ItemOfBrackets
  <1>a. q \in Nat /\ p + 1 <= q
    BY DEF Level
  <1>2. q \in Nat /\ q + 1 >= p + 2 /\ (q + 1) - 1 = q
    BY <1>a
  <1>3. <<p, q + 1>>[1] = p /\ <<p, q + 1>>[2] = q + 1
    OBVIOUS
  <1>4. Bracketed(h, <<p, q + 1>>, open)
    BY <1>2, <1>3 DEF Bracketed
  <1>5. Inside(h, <<p, q + 1>>) = Parts(h, i, q)
    BY <1>2, <1>3 DEF Inside
  <1> QED BY <1>1, <1>4, <1>5

\* What is skipped is a value of the grammar.
ReadsValue(h, g, p, d, r) ==
  r.rc = "OK" => d <= MaxDepth /\ Item(h, p, r.at) /\ <<p, r.at>> \in g[d]

IsElement(h, open, deeper, e) ==
  IF open = Brace THEN Keyed(h, e) /\ ValueOf(e) \in deeper ELSE e \in deeper

ReadsRow(h, g, p, d, open, r) ==
  r.rc = "OK" =>
    \E q \in Nat : /\ r.at = q + 1 /\ At(h, q, CloseOf(open)) /\ Level(h, p, q) /\ p < q
                   /\ \A e \in Parts(h, p, q) : IsElement(h, open, g[d + 1], e)

ReadsValues(h, g, s, p) == \A d \in Nat : ReadsValue(h, g, p, d, s[<<p, d, "value">>])

ReadsGrammar(h, g, s, p) ==
  /\ ReadsValues(h, g, s, p)
  /\ \A d \in Nat : \A open \in Kinds : ReadsRow(h, g, p, d, open, s[<<p, d, open>>])

ReadsLater(h, g, s, p) == \A j \in Nat : j > p => ReadsGrammar(h, g, s, j)

Plain == {"str", "raw", "num"}

LEMMA ValueReads ==
  ASSUME NEW h, NEW g, NEW s, NEW Scalars \in SUBSET Plain, IsText(h), AreLayers(h, Scalars, g),
         IsSkip(h, Scalars, s), NEW p \in Nat, NEW d \in Nat, ReadsLater(h, g, s, p)
  PROVE  ReadsValue(h, g, p, d, s[<<p, d, "value">>])
  <1> DEFINE r == s[<<p, d, "value">>]
  <1>0. r = SkipStep(h, Scalars, s, p, d, "value")
    BY DEF IsSkip, Opens
  <1>1. \A q \in Nat : d <= MaxDepth /\ IsDeeper(h, Scalars, g[d + 1], <<p, q>>) => <<p, q>> \in g[d]
    BY DEF AreLayers
  <1>2. p + 1 \in Nat /\ p + 2 \in Nat /\ (p + 1) + 1 = p + 2
    OBVIOUS
  <1> SUFFICES ASSUME r.rc = "OK" PROVE d <= MaxDepth /\ Item(h, p, r.at) /\ <<p, r.at>> \in g[d]
    BY DEF ReadsValue
  <1>r. \A rc : rc # "OK" => Reject(rc).rc # "OK"
    BY DEF Reject
  <1> HIDE DEF r
  <1>s. r = IF d > MaxDepth THEN Reject("BAD_JSON")
            ELSE IF \E k \in Scalars : IsA(h, p, k) THEN Read(p + 1)
            ELSE IF At(h, p, Brace) \/ At(h, p, "[")
            THEN IF At(h, p + 1, CloseOf(h[p][1])) THEN Read(p + 2)
                 ELSE s[<<p + 1, d, h[p][1]>>]
            ELSE Reject("BAD_JSON")
    BY <1>0 DEF SkipStep, Brace
  <1>m. ~(d > MaxDepth)
    BY <1>r, <1>s
  <1>3. d <= MaxDepth
    BY <1>m, ScanAssumption
  <1>4. CASE \E k \in Scalars : IsA(h, p, k)
    <2>1. PICK k \in Scalars : IsA(h, p, k)
      BY <1>4
    <2>2. r.at = p + 1
      BY <1>m, <1>s, <1>4 DEF Read
    <2>3. Item(h, p, p + 1) /\ Single(h, <<p, p + 1>>, k)
      BY <2>1, ItemOfScalar DEF Plain
    <2>4. IsDeeper(h, Scalars, g[d + 1], <<p, p + 1>>)
      BY <2>3 DEF IsDeeper
    <2> QED BY <1>1, <1>2, <1>3, <2>2, <2>3, <2>4
  <1>5. CASE ~\E k \in Scalars : IsA(h, p, k)
    <2>1. PICK open \in Kinds : At(h, p, open)
      BY <1>m, <1>s, <1>5, <1>r DEF Kinds
    <2>2. h[p][1] = open
      BY <2>1, TokenAt
    <2>3. r = IF At(h, p + 1, CloseOf(open)) THEN Read(p + 2) ELSE s[<<p + 1, d, open>>]
      <3>1. At(h, p, Brace) \/ At(h, p, "[")
        BY <2>1 DEF Kinds
      <3> QED BY <1>m, <1>s, <1>5, <2>2, <3>1
    <2>4. PICK q \in Nat : /\ r.at = q + 1 /\ At(h, q, CloseOf(open)) /\ Level(h, p + 1, q)
                           /\ \A e \in Parts(h, p + 1, q) : IsElement(h, open, g[d + 1], e)
      <3>1. CASE At(h, p + 1, CloseOf(open))
        <4>1. r.at = (p + 1) + 1
          BY <1>2, <2>3, <3>1 DEF Read
        <4>2. Level(h, p + 1, p + 1) /\ Parts(h, p + 1, p + 1) = {}
          BY <1>2, LevelNone DEF Parts
        <4> QED BY <1>2, <3>1, <4>1, <4>2
      <3>2. CASE ~At(h, p + 1, CloseOf(open))
        <4>1. r = s[<<p + 1, d, open>>]
          BY <2>3, <3>2
        <4>a. p + 1 > p
          OBVIOUS
        <4>2. ReadsRow(h, g, p + 1, d, open, r)
          BY <1>2, <4>1, <4>a DEF ReadsGrammar, ReadsLater
        <4> QED BY <4>2 DEF ReadsRow
      <3> QED BY <3>1, <3>2
    <2>b. q + 1 \in Nat
      OBVIOUS
    <2>5. /\ Item(h, p, q + 1) /\ Bracketed(h, <<p, q + 1>>, open)
          /\ Inside(h, <<p, q + 1>>) = Parts(h, p + 1, q)
      BY <2>1, <2>4, ItemOfObject
    <2>6. \A e \in Inside(h, <<p, q + 1>>) : IsElement(h, open, g[d + 1], e)
      BY <2>4, <2>5
    <2>7. IsDeeper(h, Scalars, g[d + 1], <<p, q + 1>>)
      <3>1. open = Brace \/ (open = "[" /\ open # Brace)
        BY DEF Kinds, Brace
      <3>2. Bracketed(h, <<p, q + 1>>, "{") <=> Bracketed(h, <<p, q + 1>>, Brace)
        BY DEF Brace
      <3>3. CASE open = Brace
        <4>1. \A e \in Inside(h, <<p, q + 1>>) : Keyed(h, e) /\ ValueOf(e) \in g[d + 1]
          BY <2>6, <3>3 DEF IsElement
        <4> QED BY <2>5, <3>2, <3>3, <4>1 DEF IsDeeper
      <3>4. CASE open = "[" /\ open # Brace
        <4>1. \A e \in Inside(h, <<p, q + 1>>) : e \in g[d + 1]
          BY <2>6, <3>4 DEF IsElement
        <4> QED BY <2>5, <3>4, <4>1 DEF IsDeeper
      <3> QED BY <3>1, <3>3, <3>4
    <2>8. <<p, q + 1>> \in g[d]
      BY <1>1, <1>3, <2>7, <2>b
    <2> QED BY <1>3, <2>4, <2>5, <2>8
  <1> QED BY <1>4, <1>5

LEMMA RowReads ==
  ASSUME NEW h, NEW g, NEW s, NEW Scalars \in SUBSET Plain, IsText(h), AreLayers(h, Scalars, g),
         IsSkip(h, Scalars, s), NEW p \in Nat, NEW d \in Nat, NEW open \in Kinds,
         ReadsLater(h, g, s, p), ReadsValues(h, g, s, p)
  PROVE  ReadsRow(h, g, p, d, open, s[<<p, d, open>>])
  <1> DEFINE r == s[<<p, d, open>>]
             at == IF open = "[" THEN p ELSE p + 2
             inner == s[<<at, d + 1, "value">>]
             k == inner.at
  <1>a. open \in Opens /\ "value" \in Opens /\ open # "value"
    BY DEF Opens, Kinds, Brace
  <1>k. open = Brace \/ (open = "[" /\ open # Brace)
    BY DEF Kinds, Brace
  <1>b. d + 1 \in Nat /\ p + 2 \in Nat
    OBVIOUS
  <1>0. open \in Opens /\ "value" \in Opens /\ open # "value" /\ d + 1 \in Nat /\ p + 2 \in Nat /\ at \in Nat
    BY <1>a, <1>b
  <1>1. r = SkipStep(h, Scalars, s, p, d, open)
    BY <1>0 DEF IsSkip
  <1> SUFFICES ASSUME r.rc = "OK"
               PROVE  \E q \in Nat : /\ r.at = q + 1 /\ At(h, q, CloseOf(open)) /\ Level(h, p, q) /\ p < q
                                     /\ \A e \in Parts(h, p, q) : IsElement(h, open, g[d + 1], e)
    BY DEF ReadsRow
  <1>r. \A rc : rc # "OK" => Reject(rc).rc # "OK"
    BY DEF Reject
  <1>2. /\ open = Brace => KeyAt(h, p)
        /\ inner.rc = "OK"
        /\ At(h, k, ",") => r = s[<<k + 1, d, open>>]
        /\ ~At(h, k, ",") => At(h, k, CloseOf(open)) /\ r = Read(k + 1)
    <2> HIDE DEF inner
    <2>1. r = IF (open = Brace /\ ~KeyAt(h, p)) \/ inner.rc # "OK" THEN Reject("BAD_JSON")
              ELSE IF At(h, inner.at, ",") THEN s[<<inner.at + 1, d, open>>]
              ELSE IF At(h, inner.at, CloseOf(open)) THEN Read(inner.at + 1)
              ELSE Reject("BAD_JSON")
      BY <1>0, <1>1 DEF SkipStep, inner, Brace
    <2> QED BY <1>r, <2>1
  <1>3. ReadsValue(h, g, at, d + 1, inner)
    <2>1. CASE open = "["
      BY <1>0, <2>1 DEF ReadsValues
    <2>2. CASE open = Brace
      <3>a. p + 2 > p
        OBVIOUS
      <3>b. Brace # "["
        BY DEF Brace
      <3>1. at = p + 2 /\ at > p
        BY <2>2, <3>a, <3>b
      <3> QED BY <1>0, <3>1 DEF ReadsLater, ReadsGrammar, ReadsValues
    <2> QED BY <1>k, <2>1, <2>2
  <1> HIDE DEF inner
  <1>4. Item(h, at, k) /\ <<at, k>> \in g[d + 1] /\ k \in Nat
    BY <1>2, <1>3 DEF ReadsValue, Item, Level
  <1> HIDE DEF k
  <1>5. Item(h, p, k) /\ IsElement(h, open, g[d + 1], <<p, k>>) /\ p < k
    <2>0. \A a : Item(h, a, k) => a < k
      BY DEF Item
    <2>1. CASE open = "[" /\ open # Brace
      <3>1. at = p
        BY <2>1
      <3> QED BY <1>4, <2>0, <2>1, <3>1 DEF IsElement
    <2>2. CASE open = Brace
      <3>a. at = p + 2
        BY <2>2 DEF Brace
      <3>1. Item(h, p, k) /\ Keyed(h, <<p, k>>) /\ ValueOf(<<p, k>>) = <<p + 2, k>>
        BY <1>2, <1>4, <2>2, <3>a, ItemOfKeyed
      <3> QED BY <1>4, <2>0, <2>2, <3>1, <3>a DEF IsElement
    <2> QED BY <1>k, <2>1, <2>2
  <1>6. CASE At(h, k, ",")
    <2>n. k + 1 \in Nat /\ k + 1 > p
      <3> HIDE DEF r, at
      <3> QED BY <1>4, <1>5
    <2>1. r = s[<<k + 1, d, open>>] /\ k + 1 \in Nat /\ k + 1 > p
      BY <1>2, <1>6, <2>n
    <2>2. ReadsRow(h, g, k + 1, d, open, r)
      BY <2>1 DEF ReadsLater, ReadsGrammar
    <2>3. PICK q \in Nat : /\ r.at = q + 1 /\ At(h, q, CloseOf(open)) /\ Level(h, k + 1, q) /\ k + 1 < q
                           /\ \A e \in Parts(h, k + 1, q) : IsElement(h, open, g[d + 1], e)
      BY <2>2 DEF ReadsRow
    <2>4. h[k] = Comma
      BY <1>6 DEF At, Comma
    <2>a. Level(h, k + 1, q) /\ k + 1 < q
      BY <2>3
    <2> HIDE DEF r, at
    <2>5. Level(h, p, q) /\ Parts(h, p, q) = {<<p, k>>} \cup Parts(h, k + 1, q)
      BY <1>5, <2>4, <2>a, RowAdds
    <2>6. p < q
      BY <2>n, <2>a
    <2> QED BY <1>5, <2>3, <2>5, <2>6
  <1>7. CASE ~At(h, k, ",")
    <2>0. r = Read(k + 1) /\ At(h, k, CloseOf(open))
      BY <1>2, <1>7
    <2> HIDE DEF r
    <2>1. At(h, k, CloseOf(open)) /\ r.at = k + 1
      BY <2>0 DEF Read
    <2>2. Level(h, p, k) /\ Parts(h, p, k) = {<<p, k>>}
      BY <1>5, PartsOne DEF Item
    <2> QED BY <1>4, <1>5, <2>1, <2>2
  <1> QED BY <1>6, <1>7

LEMMA SkipReads ==
  ASSUME NEW h, NEW Scalars \in SUBSET Plain, IsText(h), NEW from \in Nat,
         SkipValue(h, from, Scalars).rc = "OK"
  PROVE  LET q == SkipValue(h, from, Scalars).at
         IN  Item(h, from, q) /\ IsSkipped(h, <<from, q>>, Scalars)
  <1>1. PICK g : /\ AreLayers(h, Scalars, g)
                 /\ \A span \in Nat \X Nat : IsSkipped(h, span, Scalars) <=> span \in g[0]
    BY SkippedIsLayer
  <1> DEFINE s == CHOOSE x : IsSkip(h, Scalars, x)
             to == Len(h) + 1
             S == { p \in 0 .. to : ReadsGrammar(h, g, s, p) }
             r == SkipValue(h, from, Scalars)
  <1>2. IsSkip(h, Scalars, s)
    BY SkipExists
  <1>3. r = s[<<from, 0, "value">>]
    BY SkipValueIs
  <1> HIDE DEF s, r
  <1>0. Len(h) \in Nat /\ DOMAIN h = 1 .. Len(h) /\ to \in Nat /\ 0 \in Int /\ to \in Int
    BY DEF IsText
  <1>4. ASSUME NEW p \in Nat, p > to PROVE ReadsGrammar(h, g, s, p)
    <2>1. ASSUME NEW d \in Nat, NEW open \in Opens PROVE s[<<p, d, open>>].rc # "OK"
      <3>1. s[<<p, d, open>>] \in Results /\ Forward(s[<<p, d, open>>], p, to)
        BY <1>2, SkipResults
      <3> QED BY <1>0, <1>4, <3>1 DEF Results, Forward
    <2> QED BY <2>1 DEF ReadsGrammar, ReadsValues, ReadsValue, ReadsRow, Opens, Kinds, Brace
  <1>5. ASSUME NEW p \in 0 .. to, \A j \in p + 1 .. to : j \in S PROVE p \in S
    <2> HIDE DEF to
    <2>a. ASSUME NEW j \in Nat, j > p PROVE ReadsGrammar(h, g, s, j)
      <3>1. j > to \/ j \in p + 1 .. to
        BY <1>0, <2>a
      <3> QED BY <1>4, <1>5, <3>1
    <2>1. ReadsLater(h, g, s, p)
      BY <2>a DEF ReadsLater
    <2>2. p \in Nat /\ p + 1 \in Nat /\ p + 1 > p
      BY <1>0
    <2>3. ReadsValues(h, g, s, p)
      BY <1>1, <1>2, <2>1, <2>2, ValueReads DEF ReadsValues
    <2>4. \A d \in Nat : \A open \in Kinds : ReadsRow(h, g, p, d, open, s[<<p, d, open>>])
      BY <1>1, <1>2, <2>1, <2>2, <2>3, RowReads
    <2> QED BY <2>3, <2>4 DEF ReadsGrammar
  <1> HIDE DEF S
  <1>6. \A p \in 0 .. to : p \in S
    BY <1>0, <1>5, DownwardInduction
  <1>7. ReadsGrammar(h, g, s, from)
    <2>1. from > to \/ from \in 0 .. to
      BY <1>0
    <2> QED BY <1>4, <1>6, <2>1 DEF S
  <1>8. ReadsValue(h, g, from, 0, r)
    BY <1>3, <1>7 DEF ReadsGrammar, ReadsValues
  <1>9. r.rc = "OK"
    BY DEF r
  <1>10. Item(h, from, r.at) /\ <<from, r.at>> \in g[0] /\ r.at \in Nat
    BY <1>8, <1>9 DEF ReadsValue, Item, Level
  <1>11. <<from, r.at>> \in Nat \X Nat
    BY <1>10
  <1> QED BY <1>1, <1>10, <1>11 DEF r

\* A member's reading that ends after it began, and a reading of members.
Codes == {"OK", "BAD_JSON", "TOO_MANY_DIMS", "BAD_SHAPE", "BAD_DTYPE"}
Readings == [rc : Codes, at : Nat]
MemberResults == [rc : Codes, at : Nat, begin : SUBSET Nat]

MembersStep(h, member, s, p) ==
  LET m == member[p] IN
  IF m.rc # "OK" THEN [rc |-> m.rc, at |-> 0, begin |-> {}]
  ELSE IF At(h, m.at, ",")
  THEN LET r == s[m.at + 1] IN [r EXCEPT !.begin = @ \cup {p}]
  ELSE IF At(h, m.at, "}") THEN [rc |-> "OK", at |-> m.at + 1, begin |-> {p}]
  ELSE [rc |-> "BAD_JSON", at |-> 0, begin |-> {p}]

IsMembers(h, member, s) == s = [p \in Nat |-> MembersStep(h, member, s, p)]

\* What it says of the members that begin at p or later.
ReadsOn(r, member, p, n) ==
  /\ r \in MemberResults /\ Forward(r, p, n)
  /\ \A b \in r.begin : b >= p /\ b <= n /\ (r.rc = "OK" => member[b].rc = "OK" /\ member[b].at < r.at)

LEMMA MembersExists ==
  ASSUME NEW h, NEW member, IsText(h),
         \A p \in 1 .. Len(h) + 1 : member[p] \in Readings /\ Forward(member[p], p, Len(h) + 1)
  PROVE  \E s : IsMembers(h, member, s)
  <1> DEFINE to  == Len(h) + 1
             V   == MemberResults
             Go  == { p \in 1 .. to : member[p].rc = "OK" /\ At(h, member[p].at, ",") }
             nxt == [p \in 1 .. to |-> member[p].at + 1]
             F   == [pv \in (1 .. to) \X V |-> [pv[2] EXCEPT !.begin = @ \cup {pv[1]}]]
             Ends(p) ==
               LET m == member[p] IN
               IF m.rc # "OK" THEN [rc |-> m.rc, at |-> 0, begin |-> {}]
               ELSE IF At(h, m.at, "}") THEN [rc |-> "OK", at |-> m.at + 1, begin |-> {p}]
               ELSE [rc |-> "BAD_JSON", at |-> 0, begin |-> {p}]
             e   == [p \in 1 .. to |-> Ends(p)]
  <1>0. Len(h) \in Nat /\ to \in Nat /\ DOMAIN h = 1 .. Len(h) /\ 1 \in Int /\ to \in Int
    BY DEF IsText
  <1>1. ASSUME NEW p \in 1 .. to
        PROVE  /\ member[p].rc \in Codes /\ member[p].at \in Nat
               /\ member[p].rc = "OK" => member[p].at > p
    BY DEF Readings, Forward
  <1>2. \A p, c : At(h, p, c) => p \in 1 .. Len(h)
    BY <1>0 DEF At
  <1>3. LooksLater(1, to, Go, nxt)
    <2> SUFFICES ASSUME NEW p \in 1 .. to, p \in Go PROVE nxt[p] \in p + 1 .. to
      BY DEF LooksLater
    <2>0. member[p].rc = "OK" /\ At(h, member[p].at, ",")
      OBVIOUS
    <2>1. member[p].at > p /\ member[p].at \in Nat
      BY <1>1, <2>0
    <2>2. member[p].at \in 1 .. Len(h)
      BY <1>2, <2>0
    <2>3. \A m \in Nat : m > p /\ m \in 1 .. Len(h) => m + 1 \in p + 1 .. to
      <3> HIDE DEF Go, nxt, F, e, Ends, V, to
      <3>1. p \in Nat
        BY <1>0
      <3> QED BY <1>0, <3>1 DEF to
    <2>4. member[p].at + 1 \in p + 1 .. to
      BY <2>1, <2>2, <2>3
    <2> QED BY <2>4
  <1>4. \A p \in 1 .. to : \A v \in V : F[<<p, v>>] = [v EXCEPT !.begin = @ \cup {p}]
    OBVIOUS
  <1>5. StaysIn(1, to, V, F, e)
    <2> SUFFICES ASSUME NEW p \in 1 .. to PROVE Ends(p) \in V /\ \A v \in V : [v EXCEPT !.begin = @ \cup {p}] \in V
      BY <1>4 DEF StaysIn
    <2>1. {p} \in SUBSET Nat /\ p \in Nat /\ member[p].at + 1 \in Nat /\ {} \in SUBSET Nat
      BY <1>1
    <2>c. member[p].rc \in Codes /\ "OK" \in Codes /\ "BAD_JSON" \in Codes
      BY <1>1 DEF Codes
    <2>2. Ends(p) \in V
      BY <2>1, <2>c DEF MemberResults
    <2>3. \A v \in V : [v EXCEPT !.begin = @ \cup {p}] \in V
      BY <2>1 DEF MemberResults
    <2> QED BY <2>2, <2>3
  <1>6. \A p \in 1 .. to : nxt[p] = member[p].at + 1 /\ e[p] = Ends(p)
                          /\ (p \in Go <=> member[p].rc = "OK" /\ At(h, member[p].at, ","))
    OBVIOUS
  <1> HIDE DEF to, V, Go, nxt, F, e, Ends
  <1>7. PICK g : SolvesDownward(g, 1, to, V, Go, nxt, F, e)
    BY <1>0, <1>3, <1>5, DownwardRecursion
  <1> DEFINE s == [p \in Nat |-> IF p \in 1 .. to THEN g[p] ELSE MembersStep(h, member, g, p)]
  <1>8. ASSUME NEW p \in 1 .. to PROVE g[p] \in V /\ g[p] = IF p \in Go THEN F[<<p, g[nxt[p]]>>] ELSE e[p]
    BY <1>7 DEF SolvesDownward
  <1>9. \A p \in 1 .. to : s[p] = g[p]
    BY <1>0
  <1>a. ASSUME NEW p \in Nat, At(h, member[p].at, ",")
        PROVE  member[p].at + 1 \in 1 .. to /\ s[member[p].at + 1] = g[member[p].at + 1]
    <2>1. member[p].at \in 1 .. Len(h)
      BY <1>2, <1>a
    <2>2. member[p].at + 1 \in 1 .. to
      BY <1>0, <2>1 DEF to
    <2> HIDE DEF s
    <2> QED BY <1>9, <2>2
  <1>b. ASSUME NEW p \in Nat PROVE MembersStep(h, member, s, p) = MembersStep(h, member, g, p)
    <2> HIDE DEF s
    <2> QED BY <1>a DEF MembersStep
  <1>c. ASSUME NEW p \in 1 .. to PROVE g[p] = MembersStep(h, member, g, p)
    <2>1. CASE p \in Go
      <3>0. nxt[p] \in p + 1 .. to
        BY <1>3, <2>1 DEF LooksLater
      <3>1. nxt[p] \in 1 .. to
        BY <1>0, <3>0
      <3>a. g[nxt[p]] \in V
        BY <1>8, <3>1
      <3>2. g[p] = [g[nxt[p]] EXCEPT !.begin = @ \cup {p}]
        BY <1>4, <1>8, <2>1, <3>a
      <3> QED BY <1>6, <2>1, <3>2 DEF MembersStep
    <2>2. CASE p \notin Go
      <3>1. g[p] = Ends(p)
        BY <1>6, <1>8, <2>2
      <3> QED BY <1>1, <1>6, <2>2, <3>1 DEF MembersStep, Ends
    <2> QED BY <2>1, <2>2
  <1>d. IsMembers(h, member, s)
    <2>1. \A p \in Nat : s[p] = IF p \in 1 .. to THEN g[p] ELSE MembersStep(h, member, g, p)
      OBVIOUS
    <2>2. s = [p \in Nat |-> s[p]]
      OBVIOUS
    <2> HIDE DEF s
    <2>3. \A p \in Nat : s[p] = MembersStep(h, member, s, p)
      BY <1>b, <1>c, <2>1
    <2> QED BY <2>2, <2>3 DEF IsMembers
  <1> HIDE DEF s
  <1> QED BY <1>d

LEMMA MembersResult ==
  ASSUME NEW h, NEW member, NEW s, IsText(h), IsMembers(h, member, s),
         \A p \in 1 .. Len(h) + 1 : member[p] \in Readings /\ Forward(member[p], p, Len(h) + 1)
  PROVE  \A p \in 1 .. Len(h) + 1 : ReadsOn(s[p], member, p, Len(h) + 1)
  <1> DEFINE to  == Len(h) + 1
             S == { p \in 1 .. to : ReadsOn(s[p], member, p, to) }
  <1>0. Len(h) \in Nat /\ to \in Nat /\ DOMAIN h = 1 .. Len(h) /\ 1 \in Int /\ to \in Int
    BY DEF IsText
  <1>1. ASSUME NEW p \in 1 .. to
        PROVE  /\ member[p].rc \in Codes /\ member[p].at \in Nat
               /\ member[p].rc = "OK" => member[p].at > p /\ member[p].at <= to
               /\ p \in Nat /\ s[p] = MembersStep(h, member, s, p)
    BY DEF Readings, Forward, IsMembers
  <1>2. \A p, c : At(h, p, c) => p \in 1 .. Len(h)
    BY <1>0 DEF At
  <1>3. ASSUME NEW p \in 1 .. to, \A j \in p + 1 .. to : j \in S PROVE p \in S
    <2> DEFINE m == member[p]
               n == m.at + 1
               r == s[n]
    <2> HIDE DEF to, m
    <2>0. p \in Nat /\ p >= p /\ p <= to
      BY <1>0
    <2>m. /\ m.rc \in Codes /\ m.at \in Nat /\ (m.rc = "OK" => m.at > p /\ m.at <= to)
          /\ m = member[p]
      BY <1>1 DEF m
    <2>1. CASE m.rc = "OK" /\ At(h, m.at, ",")
      <3>1. n \in p + 1 .. to /\ n \in 1 .. to /\ n > p
        <4>1. m.at \in 1 .. Len(h)
          BY <1>2, <2>1
        <4>2. m.at > p /\ p \in Nat
          BY <2>0, <2>1, <2>m
        <4>3. \A k \in Nat : k > p /\ k \in 1 .. Len(h) => k + 1 \in p + 1 .. to /\ k + 1 \in 1 .. to /\ k + 1 > p
          BY <1>0, <4>2 DEF to
        <4> QED BY <2>m, <4>1, <4>2, <4>3
      <3>2. ReadsOn(r, member, n, to)
        BY <1>3, <3>1
      <3>3. s[p] = [r EXCEPT !.begin = @ \cup {p}]
        BY <1>1, <2>1, <2>m DEF MembersStep
      <3> HIDE DEF r
      <3>4. r \in MemberResults /\ Forward(r, n, to) /\ (r.rc = "OK" => r.at > n)
        BY <3>2 DEF ReadsOn, Forward
      <3>5. /\ s[p].rc = r.rc /\ s[p].at = r.at /\ s[p].begin = r.begin \cup {p}
            /\ s[p] \in MemberResults
        BY <2>0, <3>3, <3>4 DEF MemberResults
      <3>6. Forward(s[p], p, to)
        BY <1>0, <2>0, <3>1, <3>4, <3>5 DEF Forward, MemberResults
      <3>7. ASSUME NEW b \in s[p].begin
            PROVE  b >= p /\ b <= to /\ (s[p].rc = "OK" => member[b].rc = "OK" /\ member[b].at < s[p].at)
        <4>1. CASE b \in r.begin
          <5>1. b \in Nat
            BY <3>4, <4>1 DEF MemberResults
          <5>2. b >= n /\ b <= to /\ (r.rc = "OK" => member[b].rc = "OK" /\ member[b].at < r.at)
            BY <3>2, <4>1 DEF ReadsOn
          <5>3. b >= p
            BY <2>0, <3>1, <5>1, <5>2
          <5> QED BY <3>5, <5>2, <5>3
        <4>2. CASE b = p
          <5>1. r.rc = "OK" => m.at < r.at
            BY <2>m, <3>4 DEF MemberResults
          <5> QED BY <2>0, <2>1, <2>m, <3>5, <4>2, <5>1
        <4> QED BY <3>5, <3>7, <4>1, <4>2
      <3> QED BY <3>5, <3>6, <3>7 DEF ReadsOn
    <2>2. CASE m.rc = "OK" /\ ~At(h, m.at, ",") /\ At(h, m.at, "}")
      <3>1. s[p] = [rc |-> "OK", at |-> m.at + 1, begin |-> {p}]
        BY <1>1, <2>2, <2>m DEF MembersStep
      <3>a. m.at \in 1 .. Len(h) /\ m.at \in Nat /\ m.at > p
        BY <1>2, <2>2, <2>m
      <3>2. m.at + 1 \in Nat /\ {p} \in SUBSET Nat
        BY <2>0, <3>a
      <3>3. m.at + 1 > p /\ m.at + 1 <= to /\ m.at < m.at + 1
        BY <1>0, <2>0, <3>a DEF to
      <3>4. s[p] \in MemberResults
        BY <3>1, <3>2 DEF MemberResults, Codes
      <3>5. Forward(s[p], p, to)
        BY <3>1, <3>3 DEF Forward
      <3>6. \A b \in s[p].begin : b = p /\ member[b].rc = "OK" /\ member[b].at < s[p].at
        <4>1. s[p].begin = {p} /\ s[p].at = m.at + 1
          BY <3>1
        <4> QED BY <2>2, <2>m, <3>3, <4>1
      <3> QED BY <2>0, <3>4, <3>5, <3>6 DEF ReadsOn
    <2>3. CASE ~(m.rc = "OK" /\ (At(h, m.at, ",") \/ At(h, m.at, "}")))
      <3>1. \/ m.rc # "OK" /\ s[p] = [rc |-> m.rc, at |-> 0, begin |-> {}]
            \/ s[p] = [rc |-> "BAD_JSON", at |-> 0, begin |-> {p}]
        BY <1>1, <2>3, <2>m DEF MembersStep
      <3>2. {p} \in SUBSET Nat /\ {} \in SUBSET Nat /\ m.rc \in Codes /\ "BAD_JSON" \in Codes
        BY <2>0, <2>m DEF Codes
      <3>3. s[p] \in MemberResults
        BY <3>1, <3>2 DEF MemberResults
      <3>4. s[p].rc # "OK" /\ \A b \in s[p].begin : b = p
        BY <3>1
      <3> QED BY <2>0, <3>3, <3>4 DEF ReadsOn, Forward
    <2> QED BY <2>1, <2>2, <2>3
  <1> HIDE DEF S
  <1>4. \A p \in 1 .. to : p \in S
    BY <1>0, <1>3, DownwardInduction
  <1> QED BY <1>4 DEF S

\* The members of an object: the result is past all of them.
LEMMA MembersMove ==
  ASSUME NEW h, NEW member, IsText(h), NEW from \in Nat,
         \A p \in 1 .. Len(h) + 1 : member[p] \in Readings /\ Forward(member[p], p, Len(h) + 1)
  PROVE  ReadsOn(Members(h, from, member), member, from + 1, Len(h) + 1)
  <1> DEFINE s == CHOOSE x : IsMembers(h, member, x)
  <1>0. Len(h) \in Nat /\ DOMAIN h = 1 .. Len(h)
    BY DEF IsText
  <1>1. IsMembers(h, member, s)
    BY MembersExists
  <1>2. Members(h, from, member)
          = IF ~At(h, from, "{") THEN [rc |-> "BAD_JSON", at |-> 0, begin |-> {}]
            ELSE IF At(h, from + 1, "}") THEN [rc |-> "OK", at |-> from + 2, begin |-> {}]
            ELSE s[from + 1]
    BY DEF Members, IsMembers, MembersStep
  <1> HIDE DEF s
  <1>3. CASE ~At(h, from, "{")
    <2>1. Members(h, from, member) = [rc |-> "BAD_JSON", at |-> 0, begin |-> {}]
      BY <1>2, <1>3
    <2> QED BY <2>1 DEF ReadsOn, MemberResults, Forward, Codes
  <1>4. CASE At(h, from, "{") /\ At(h, from + 1, "}")
    <2>1. from + 1 \in 1 .. Len(h)
      BY <1>0, <1>4 DEF At
    <2>2. Members(h, from, member) = [rc |-> "OK", at |-> from + 2, begin |-> {}]
      BY <1>2, <1>4
    <2>3. from + 2 \in Nat /\ from + 2 > from + 1 /\ from + 2 <= Len(h) + 1
      BY <1>0, <2>1
    <2> QED BY <2>2, <2>3 DEF ReadsOn, MemberResults, Forward, Codes
  <1>5. CASE At(h, from, "{") /\ ~At(h, from + 1, "}")
    <2>0. from \in 1 .. Len(h)
      BY <1>0, <1>5 DEF At
    <2>1. from + 1 \in 1 .. Len(h) + 1
      BY <1>0, <2>0
    <2>2. ReadsOn(s[from + 1], member, from + 1, Len(h) + 1)
      BY <1>1, <2>1, MembersResult
    <2> QED BY <1>2, <1>5, <2>2
  <1> QED BY <1>3, <1>4, <1>5

\* What reads a member gives the item it is.
IsReader(h, member) ==
  \A p \in 1 .. Len(h) + 1 : /\ member[p] \in Readings /\ Forward(member[p], p, Len(h) + 1)
                             /\ member[p].rc = "OK" => Item(h, p, member[p].at)

MembersOf(h, member, parts) ==
  \A m \in parts : member[m[1]].rc = "OK" /\ member[m[1]].at = m[2] /\ Item(h, m[1], m[2])

ReadsMembers(h, member, p, r) ==
  r.rc = "OK" =>
    \E q \in Nat : /\ r.at = q + 1 /\ At(h, q, CloseOf(Brace)) /\ Level(h, p, q) /\ p < q
                   /\ r.begin = { m[1] : m \in Parts(h, p, q) }
                   /\ MembersOf(h, member, Parts(h, p, q))

LEMMA BraceIs == Brace = "{" /\ CloseOf(Brace) = "}"
  BY DEF Brace, CloseOf

LEMMA FirstsAdd ==
  ASSUME NEW p, NEW k, NEW A
  PROVE  { e[1] : e \in {<<p, k>>} \cup A } = { e[1] : e \in A } \cup {p}
  <1>1. <<p, k>>[1] = p
    OBVIOUS
  <1>2. \A B : { e[1] : e \in B \cup A } = { e[1] : e \in A } \cup { e[1] : e \in B }
    OBVIOUS
  <1>3. { e[1] : e \in {<<p, k>>} } = { <<p, k>>[1] }
    OBVIOUS
  <1> QED BY <1>1, <1>2, <1>3

LEMMA MembersReadOn ==
  ASSUME NEW h, NEW member, NEW s, IsText(h), IsMembers(h, member, s), IsReader(h, member)
  PROVE  \A p \in 1 .. Len(h) + 1 : ReadsMembers(h, member, p, s[p])
  <1> DEFINE to == Len(h) + 1
             S == { p \in 1 .. to : ReadsMembers(h, member, p, s[p]) }
  <1>0. Len(h) \in Nat /\ to \in Nat /\ DOMAIN h = 1 .. Len(h) /\ 1 \in Int /\ to \in Int
    BY DEF IsText
  <1>1. \A p \in 1 .. to : member[p] \in Readings /\ Forward(member[p], p, to)
    BY DEF IsReader
  <1>2. ASSUME NEW p \in 1 .. to, \A j \in p + 1 .. to : j \in S PROVE p \in S
    <2> DEFINE m == member[p]
               k == m.at
               r == s[p]
    <2>0. p \in Nat
      BY <1>0
    <2>1. r = IF m.rc # "OK" THEN [rc |-> m.rc, at |-> 0, begin |-> {}]
              ELSE IF At(h, k, ",") THEN [s[k + 1] EXCEPT !.begin = @ \cup {p}]
              ELSE IF At(h, k, CloseOf(Brace)) THEN [rc |-> "OK", at |-> k + 1, begin |-> {p}]
              ELSE [rc |-> "BAD_JSON", at |-> 0, begin |-> {p}]
      BY <2>0 DEF IsMembers, MembersStep, CloseOf, Brace
    <2> SUFFICES ASSUME r.rc = "OK" PROVE ReadsMembers(h, member, p, r)
      BY DEF ReadsMembers
    <2> HIDE DEF r
    <2>2. m.rc = "OK"
      BY <2>1
    <2>3. Item(h, p, k) /\ k \in Nat /\ p < k
      BY <2>2 DEF IsReader, Item, Level
    <2>4. MembersOf(h, member, {<<p, k>>})
      BY <2>2, <2>3 DEF MembersOf
    <2> HIDE DEF m, k
    <2>5. CASE At(h, k, ",")
      <3> DEFINE t == s[k + 1]
      <3>0. k + 1 \in p + 1 .. to /\ k + 1 \in 1 .. to
        <4>1. k \in 1 .. Len(h)
          BY <1>0, <2>5 DEF At
        <4> QED BY <1>0, <2>0, <2>3, <4>1
      <3>1. ReadsMembers(h, member, k + 1, t)
        BY <1>2, <3>0
      <3>2. t \in MemberResults
        <4>1. ReadsOn(t, member, k + 1, Len(h) + 1)
          BY <1>1, <3>0, MembersResult
        <4> QED BY <4>1 DEF ReadsOn
      <3>3. r = [t EXCEPT !.begin = @ \cup {p}]
        BY <2>1, <2>2, <2>5
      <3> HIDE DEF t
      <3>4. r.rc = t.rc /\ r.at = t.at /\ r.begin = t.begin \cup {p}
        BY <3>2, <3>3 DEF MemberResults
      <3>5. PICK q \in Nat : /\ t.at = q + 1 /\ At(h, q, CloseOf(Brace)) /\ Level(h, k + 1, q) /\ k + 1 < q
                             /\ t.begin = { e[1] : e \in Parts(h, k + 1, q) }
                             /\ MembersOf(h, member, Parts(h, k + 1, q))
        BY <3>1, <3>4 DEF ReadsMembers
      <3>6. h[k] = Comma
        BY <2>5 DEF At, Comma
      <3>a. Level(h, k + 1, q) /\ k + 1 < q
        BY <3>5
      <3>7. Level(h, p, q) /\ Parts(h, p, q) = {<<p, k>>} \cup Parts(h, k + 1, q)
        BY <2>3, <3>6, <3>a, RowAdds
      <3>8. p < q
        BY <2>0, <2>3, <3>5
      <3>9. r.begin = { e[1] : e \in Parts(h, p, q) }
        <4>1. { e[1] : e \in Parts(h, p, q) } = { e[1] : e \in Parts(h, k + 1, q) } \cup {p}
          BY <3>7, FirstsAdd
        <4> QED BY <3>4, <3>5, <4>1
      <3>10. MembersOf(h, member, Parts(h, p, q))
        BY <2>4, <3>5, <3>7 DEF MembersOf
      <3> QED BY <3>4, <3>5, <3>7, <3>8, <3>9, <3>10 DEF ReadsMembers
    <2>6. CASE ~At(h, k, ",")
      <3>1. At(h, k, CloseOf(Brace)) /\ r = [rc |-> "OK", at |-> k + 1, begin |-> {p}]
        BY <2>1, <2>2, <2>6
      <3>2. Level(h, p, k) /\ Parts(h, p, k) = {<<p, k>>}
        BY <2>3, PartsOne DEF Item
      <3>3. r.begin = { e[1] : e \in Parts(h, p, k) } /\ r.at = k + 1
        BY <3>1, <3>2
      <3> QED BY <2>3, <2>4, <3>1, <3>2, <3>3 DEF ReadsMembers
    <2> QED BY <2>5, <2>6
  <1> HIDE DEF S
  <1>3. \A p \in 1 .. to : p \in S
    BY <1>0, <1>2, DownwardInduction
  <1> QED BY <1>3 DEF S

\* The members of an object are its parts.
IsObject(h, member, from, r) ==
  LET v == <<from, r.at>> IN
  /\ r.at \in Nat /\ Item(h, from, r.at) /\ Bracketed(h, v, Brace)
  /\ r.begin = { m[1] : m \in Inside(h, v) } /\ MembersOf(h, member, Inside(h, v))
  /\ \A m \in Inside(h, v) : m = <<m[1], m[2]>> /\ m[1] \in 1 .. Len(h) + 1

LEMMA MembersRead ==
  ASSUME NEW h, NEW member, IsText(h), IsReader(h, member), NEW from \in Nat,
         Members(h, from, member).rc = "OK"
  PROVE  IsObject(h, member, from, Members(h, from, member))
  <1> DEFINE s == CHOOSE x : IsMembers(h, member, x)
             r == Members(h, from, member)
  <1>0. Len(h) \in Nat /\ DOMAIN h = 1 .. Len(h)
    BY DEF IsText
  <1>a. \A p \in 1 .. Len(h) + 1 : member[p] \in Readings /\ Forward(member[p], p, Len(h) + 1)
    BY DEF IsReader
  <1>1. IsMembers(h, member, s)
    BY <1>a, MembersExists
  <1>2. r = IF ~At(h, from, Brace) THEN [rc |-> "BAD_JSON", at |-> 0, begin |-> {}]
            ELSE IF At(h, from + 1, CloseOf(Brace)) THEN [rc |-> "OK", at |-> from + 2, begin |-> {}]
            ELSE s[from + 1]
    <2>1. r = IF ~At(h, from, "{") THEN [rc |-> "BAD_JSON", at |-> 0, begin |-> {}]
              ELSE IF At(h, from + 1, "}") THEN [rc |-> "OK", at |-> from + 2, begin |-> {}]
              ELSE s[from + 1]
      BY DEF Members, IsMembers, MembersStep
    <2> HIDE DEF r, s
    <2> QED BY <2>1, BraceIs
  <1> HIDE DEF s, r
  <1>3. r.rc = "OK"
    BY DEF r
  <1>4. At(h, from, Brace)
    BY <1>2, <1>3
  <1>5. from + 1 \in Nat /\ (from + 1) + 1 = from + 2 /\ Brace \in Kinds
    BY DEF Kinds
  <1>6. PICK q \in Nat : /\ r.at = q + 1 /\ At(h, q, CloseOf(Brace)) /\ Level(h, from + 1, q)
                         /\ r.begin = { m[1] : m \in Parts(h, from + 1, q) }
                         /\ MembersOf(h, member, Parts(h, from + 1, q))
    <2>1. CASE At(h, from + 1, CloseOf(Brace))
      <3>1. r = [rc |-> "OK", at |-> from + 2, begin |-> {}]
        BY <1>2, <1>4, <2>1
      <3>2. Level(h, from + 1, from + 1) /\ Parts(h, from + 1, from + 1) = {}
        BY <1>5, LevelNone DEF Parts
      <3>3. r.at = (from + 1) + 1 /\ r.begin = { m[1] : m \in Parts(h, from + 1, from + 1) }
        BY <1>5, <3>1, <3>2
      <3>4. MembersOf(h, member, Parts(h, from + 1, from + 1))
        BY <3>2 DEF MembersOf
      <3> QED BY <1>5, <2>1, <3>2, <3>3, <3>4
    <2>2. CASE ~At(h, from + 1, CloseOf(Brace))
      <3>1. r = s[from + 1]
        BY <1>2, <1>4, <2>2
      <3>2. from + 1 \in 1 .. Len(h) + 1
        BY <1>0, <1>4 DEF At
      <3>3. ReadsMembers(h, member, from + 1, r)
        BY <1>1, <3>1, <3>2, MembersReadOn
      <3> QED BY <1>3, <3>3 DEF ReadsMembers
    <2> QED BY <2>1, <2>2
  <1>7. /\ Item(h, from, q + 1) /\ Bracketed(h, <<from, q + 1>>, Brace)
        /\ Inside(h, <<from, q + 1>>) = Parts(h, from + 1, q)
    BY <1>4, <1>5, <1>6, ItemOfObject
  <1>8. q + 1 \in Nat
    OBVIOUS
  <1>9. \A m \in Parts(h, from + 1, q) : m = <<m[1], m[2]>> /\ m[1] \in 1 .. Len(h) + 1
    <2>1. ReadsOn(Members(h, from, member), member, from + 1, Len(h) + 1)
      BY <1>a, MembersMove
    <2>2. \A b \in r.begin : b >= from + 1 /\ b <= Len(h) + 1
      BY <2>1 DEF ReadsOn, r
    <2>3. from + 1 <= q
      BY <1>6 DEF Level
    <2> SUFFICES ASSUME NEW m \in Parts(h, from + 1, q)
                 PROVE  m = <<m[1], m[2]>> /\ m[1] \in 1 .. Len(h) + 1
      OBVIOUS
    <2>4. m \in Nat \X Nat /\ m = <<m[1], m[2]>>
      BY <1>5, <2>3, PartsType
    <2>5. m[1] \in r.begin
      BY <1>6
    <2>6. m[1] >= from + 1 /\ m[1] <= Len(h) + 1 /\ m[1] \in Nat
      BY <2>2, <2>4, <2>5
    <2> QED BY <1>0, <2>4, <2>6
  <1> QED BY <1>6, <1>7, <1>8, <1>9 DEF r, IsObject

(* Lists of numbers.                                                       *)
FlatSpans(p, n) == [k \in 1 .. n |-> <<p + 2 * k - 2, p + 2 * k - 1>>]

IsFlat(h, p, n) ==
  /\ n \in Nat \ {0} /\ Level(h, p, p + 2 * n - 1)
  /\ Parts(h, p, p + 2 * n - 1) = SpansOf(FlatSpans(p, n))
  /\ \A k \in 1 .. n : IsA(h, p + 2 * k - 2, "num")

LEMMA FlatOne ==
  ASSUME NEW h, NEW p \in Nat, IsA(h, p, "num")
  PROVE  IsFlat(h, p, 1)
  <1>1. Item(h, p, p + 1)
    BY ItemOfScalar
  <1>2. Level(h, p, p + 1) /\ Parts(h, p, p + 1) = {<<p, p + 1>>}
    BY <1>1, PartsOne DEF Item
  <1>3. p + 2 * 1 - 1 = p + 1 /\ p + 2 * 1 - 2 = p /\ 1 .. 1 = {1} /\ 1 \in Nat \ {0}
    OBVIOUS
  <1>4. SpansOf(FlatSpans(p, 1)) = {<<p, p + 1>>}
    BY <1>3 DEF SpansOf, FlatSpans
  <1> QED BY <1>2, <1>3, <1>4 DEF IsFlat

LEMMA FlatMore ==
  ASSUME NEW h, NEW p \in Nat, NEW n, IsA(h, p, "num"), h[p + 1] = Comma, IsFlat(h, p + 2, n)
  PROVE  IsFlat(h, p, n + 1)
  <1> DEFINE q == p + 2 * n + 1
  <1>n. n \in Nat \ {0}
    BY DEF IsFlat
  <1>0. n \in Nat /\ n # 0 /\ n + 1 \in Nat \ {0} /\ q \in Nat
    BY <1>n
  <1>1. Item(h, p, p + 1)
    BY ItemOfScalar
  <1>3. (p + 2) + 2 * n - 1 = q /\ p + 2 * (n + 1) - 1 = q /\ (p + 1) + 1 = p + 2 /\ p + 2 < q
    BY <1>0
  <1>4. Level(h, p + 2, q) /\ Parts(h, p + 2, q) = SpansOf(FlatSpans(p + 2, n))
    BY <1>3 DEF IsFlat
  <1>5. Level(h, p, q) /\ Parts(h, p, q) = {<<p, p + 1>>} \cup Parts(h, p + 2, q)
    <2> HIDE DEF q
    <2>1. p + 2 = (p + 1) + 1 /\ Level(h, p + 2, q) /\ p + 2 < q
      BY <1>3, <1>4
    <2> QED BY <1>1, <2>1, RowAdds
  <1>6. SpansOf(FlatSpans(p, n + 1)) = {<<p, p + 1>>} \cup SpansOf(FlatSpans(p + 2, n))
    <2>1. SpansOf(FlatSpans(p, n + 1)) = { <<p + 2 * k - 2, p + 2 * k - 1>> : k \in 1 .. n + 1 }
      BY DEF SpansOf, FlatSpans
    <2>2. SpansOf(FlatSpans(p + 2, n)) = { <<(p + 2) + 2 * k - 2, (p + 2) + 2 * k - 1>> : k \in 1 .. n }
      BY DEF SpansOf, FlatSpans
    <2>3. \A k \in 1 .. n + 1 : k = 1 \/ (k - 1 \in 1 .. n /\ (p + 2) + 2 * (k - 1) - 2 = p + 2 * k - 2
                                          /\ (p + 2) + 2 * (k - 1) - 1 = p + 2 * k - 1)
      BY <1>0
    <2>4. \A k \in 1 .. n : k + 1 \in 1 .. n + 1 /\ (p + 2) + 2 * k - 2 = p + 2 * (k + 1) - 2
                            /\ (p + 2) + 2 * k - 1 = p + 2 * (k + 1) - 1
      BY <1>0
    <2>5. 1 \in 1 .. n + 1 /\ p + 2 * 1 - 2 = p /\ p + 2 * 1 - 1 = p + 1
      BY <1>0
    <2>6. SpansOf(FlatSpans(p, n + 1)) \subseteq {<<p, p + 1>>} \cup SpansOf(FlatSpans(p + 2, n))
      <3> SUFFICES ASSUME NEW k \in 1 .. n + 1
                   PROVE  <<p + 2 * k - 2, p + 2 * k - 1>> \in {<<p, p + 1>>} \cup SpansOf(FlatSpans(p + 2, n))
        BY <2>1
      <3>1. CASE k = 1
        BY <2>5, <3>1
      <3>2. CASE k # 1
        <4> DEFINE l == k - 1
        <4>1. l \in 1 .. n /\ (p + 2) + 2 * l - 2 = p + 2 * k - 2 /\ (p + 2) + 2 * l - 1 = p + 2 * k - 1
          BY <2>3, <3>2
        <4>2. <<(p + 2) + 2 * l - 2, (p + 2) + 2 * l - 1>> \in SpansOf(FlatSpans(p + 2, n))
          BY <2>2, <4>1
        <4> QED BY <4>1, <4>2
      <3> QED BY <3>1, <3>2
    <2>7. {<<p, p + 1>>} \subseteq SpansOf(FlatSpans(p, n + 1))
      BY <2>1, <2>5
    <2>8. SpansOf(FlatSpans(p + 2, n)) \subseteq SpansOf(FlatSpans(p, n + 1))
      <3> SUFFICES ASSUME NEW k \in 1 .. n
                   PROVE  <<(p + 2) + 2 * k - 2, (p + 2) + 2 * k - 1>> \in SpansOf(FlatSpans(p, n + 1))
        BY <2>2
      <3> DEFINE l == k + 1
      <3>1. l \in 1 .. n + 1 /\ (p + 2) + 2 * k - 2 = p + 2 * l - 2 /\ (p + 2) + 2 * k - 1 = p + 2 * l - 1
        BY <2>4
      <3>2. <<p + 2 * l - 2, p + 2 * l - 1>> \in SpansOf(FlatSpans(p, n + 1))
        BY <2>1, <3>1
      <3> QED BY <3>1, <3>2
    <2> QED BY <2>6, <2>7, <2>8
  <1>7. ASSUME NEW k \in 1 .. n + 1 PROVE IsA(h, p + 2 * k - 2, "num")
    <2>1. CASE k = 1
      <3>1. p + 2 * k - 2 = p
        BY <2>1
      <3> QED BY <3>1
    <2>2. CASE k # 1
      <3> DEFINE l == k - 1
      <3>1. l \in 1 .. n /\ (p + 2) + 2 * l - 2 = p + 2 * k - 2
        BY <1>0, <2>2
      <3>2. IsA(h, (p + 2) + 2 * l - 2, "num")
        BY <3>1 DEF IsFlat
      <3> QED BY <3>1, <3>2
    <2> QED BY <2>1, <2>2
  <1> HIDE DEF q
  <1> QED BY <1>0, <1>3, <1>4, <1>5, <1>6, <1>7 DEF IsFlat

IsListOf(h, from, n, to) ==
  LET v == <<from, to>> IN
  /\ to \in Nat /\ Item(h, from, to) /\ Bracketed(h, v, "[") /\ Cardinality(Inside(h, v)) = n
  /\ \A e \in Inside(h, v) : Single(h, e, "num") /\ \E k \in 1 .. n : e[1] = from + 2 * k - 1
  /\ Numbers(h, v) = [k \in 1 .. n |-> h[from + 2 * k - 1][2]]

LEMMA FlatList ==
  ASSUME NEW h, NEW from \in Nat, NEW n, At(h, from, "["), IsFlat(h, from + 1, n), At(h, from + 2 * n, "]"),
         NEW to, to = from + 2 * n + 1
  PROVE  IsListOf(h, from, n, to)
  <1> DEFINE q == from + 2 * n
             i == from + 1
             e == FlatSpans(i, n)
             v == <<from, q + 1>>
  <1>z. n \in Nat \ {0}
    BY DEF IsFlat
  <1>0. n \in Nat /\ q \in Nat /\ q + 1 \in Nat /\ i = from + 1 /\ i + 2 * n - 1 = q /\ i \in Nat
    BY <1>z
  <1>1. Level(h, i, q) /\ Parts(h, i, q) = SpansOf(e)
    BY <1>0 DEF IsFlat
  <1>2. CloseOf("[") = "]" /\ "[" \in Kinds
    BY DEF CloseOf, Kinds
  <1>3. Item(h, from, q + 1) /\ Bracketed(h, v, "[") /\ Inside(h, v) = SpansOf(e)
    <2>1. At(h, q, CloseOf("["))
      BY <1>2
    <2> HIDE DEF q, i, e
    <2> QED BY <1>0, <1>1, <1>2, <2>1, ItemOfObject
  <1>4. \A k \in 1 .. n : e[k] = <<from + 2 * k - 1, from + 2 * k>>
    <2> SUFFICES ASSUME NEW k \in 1 .. n PROVE e[k] = <<from + 2 * k - 1, from + 2 * k>>
      OBVIOUS
    <2>1. i + 2 * k - 2 = from + 2 * k - 1 /\ i + 2 * k - 1 = from + 2 * k
      BY <1>0
    <2>2. e[k] = <<i + 2 * k - 2, i + 2 * k - 1>>
      BY DEF FlatSpans
    <2> QED BY <2>1, <2>2
  <1>5. DOMAIN e = 1 .. n
    BY DEF FlatSpans
  <1>n. n \in Nat
    BY <1>0
  <1> HIDE DEF e, i, q
  <1>6. Ascends(e, n)
    <2>1. \A k \in 1 .. n : e[k][1] = from + 2 * k - 1
      BY <1>4
    <2>2. \A k \in 1 .. n : from + 2 * k - 1 \in Int
      BY <1>n
    <2>3. \A k, m \in 1 .. n : k < m => from + 2 * k - 1 < from + 2 * m - 1
      BY <1>n
    <2>4. \A k \in 1 .. n : e[k][1] \in Int
      BY <2>1, <2>2
    <2>5. \A k, m \in 1 .. n : k < m => e[k][1] < e[m][1]
      BY <2>1, <2>3
    <2> QED BY <1>5, <1>n, <2>4, <2>5 DEF Ascends
  <1>7. Cardinality(SpansOf(e)) = n
    <2>1. n \in 0 .. n /\ SpansOf(e) = { e[k] : k \in 1 .. n }
      BY <1>5, <1>n DEF SpansOf
    <2> QED BY <1>6, <2>1, AscendingCount
  <1>8. ASSUME NEW s \in SpansOf(e) PROVE Single(h, s, "num") /\ \E k \in 1 .. n : s[1] = from + 2 * k - 1
    <2>1. PICK k \in 1 .. n : s = e[k]
      BY <1>5 DEF SpansOf
    <2>2. s = <<from + 2 * k - 1, from + 2 * k>>
      BY <1>4, <2>1
    <2>3. s[1] = from + 2 * k - 1 /\ s[2] = s[1] + 1
      BY <1>n, <2>2
    <2>4. IsA(h, i + 2 * k - 2, "num")
      BY DEF IsFlat, i
    <2>5. i + 2 * k - 2 = s[1]
      BY <2>3 DEF i
    <2> QED BY <2>3, <2>4, <2>5 DEF Single
  <1>9. Numbers(h, v) = [k \in 1 .. n |-> h[from + 2 * k - 1][2]]
    <2>1. InOrder(Inside(h, v)) = [k \in 1 .. n |-> e[k]]
      BY <1>3, <1>6, AscendingInOrder
    <2>2. Numbers(h, v) = [k \in 1 .. n |-> h[e[k][1]][2]]
      BY <2>1 DEF Numbers
    <2>3. \A k \in 1 .. n : e[k][1] = from + 2 * k - 1
      BY <1>4
    <2> HIDE DEF v
    <2> QED BY <2>2, <2>3
  <1>10. to = q + 1 /\ <<from, to>> = v
    BY DEF q
  <1> HIDE DEF v
  <1> QED BY <1>0, <1>3, <1>7, <1>8, <1>9, <1>10 DEF IsListOf

-----------------------------------------------------------------------------
(* A shape.                                                                *)

IsHeader(h) == IsText(h) /\ \A p \in DOMAIN h : h[p][1] = "num" => h[p][2] \in 0 .. UMax

CommaAt(h, p) == At(h, p, ",")

ShapeStep(h, from, d, p) ==
  IF ~IsA(h, p, "num") THEN Reject("BAD_JSON")
  ELSE IF (p - from - 1) \div 2 >= MaxDims THEN Reject("TOO_MANY_DIMS")
  ELSE IF h[p][2] > IMax THEN Reject("BAD_SHAPE")
  ELSE IF CommaAt(h, p + 1) THEN d[p + 2]
  ELSE IF At(h, p + 1, "]") THEN Read(p + 2)
  ELSE Reject("BAD_JSON")

IsShape(h, from, d) == d = [p \in Nat |-> ShapeStep(h, from, d, p)]

LEMMA ShapeIs ==
  ASSUME NEW h, NEW from
  PROVE  Shape(h, from) = IF ~At(h, from, "[") THEN Reject("BAD_JSON")
                          ELSE IF At(h, from + 1, "]") THEN Read(from + 2)
                          ELSE (CHOOSE d : IsShape(h, from, d))[from + 1]
  BY DEF Shape, IsShape, ShapeStep, CommaAt

LEMMA RejectType == \A rc \in Codes : Reject(rc) \in Readings
  BY DEF Reject, Readings

LEMMA ReadType == \A p \in Nat : Read(p) \in Readings
  BY DEF Read, Readings, Codes

\* The same, when the later dimensions read as v.
ShapeThen(h, from, p, v) ==
  IF ~IsA(h, p, "num") THEN Reject("BAD_JSON")
  ELSE IF (p - from - 1) \div 2 >= MaxDims THEN Reject("TOO_MANY_DIMS")
  ELSE IF h[p][2] > IMax THEN Reject("BAD_SHAPE")
  ELSE IF CommaAt(h, p + 1) THEN v
  ELSE IF At(h, p + 1, "]") THEN Read(p + 2)
  ELSE Reject("BAD_JSON")

LEMMA ShapeExists ==
  ASSUME NEW h, IsText(h), NEW from \in Nat
  PROVE  \E d : IsShape(h, from, d)
  <1> DEFINE to  == Len(h) + 1
             V   == Readings
             Go  == { p \in 0 .. to : CommaAt(h, p + 1) }
             nxt == [p \in 0 .. to |-> p + 2]
             F   == [pv \in (0 .. to) \X V |-> ShapeThen(h, from, pv[1], pv[2])]
             e   == [p \in 0 .. to |-> ShapeThen(h, from, p, Reject("BAD_JSON"))]
  <1>0. Len(h) \in Nat /\ to \in Nat /\ DOMAIN h = 1 .. Len(h) /\ 0 \in Int /\ to \in Int /\ to = Len(h) + 1
    BY DEF IsText
  <1>1. \A p : CommaAt(h, p) => p \in 1 .. Len(h)
    BY <1>0 DEF CommaAt, At
  <1>2. ASSUME NEW p \in Nat, CommaAt(h, p + 1) PROVE p \in 0 .. to /\ p + 2 \in p + 1 .. to /\ p + 2 \in 0 .. to
    <2>1. p + 1 \in 1 .. Len(h)
      BY <1>1, <1>2
    <2> HIDE DEF to
    <2> QED BY <1>0, <2>1
  <1>3. LooksLater(0, to, Go, nxt)
    <2> SUFFICES ASSUME NEW p \in 0 .. to, p \in Go PROVE nxt[p] \in p + 1 .. to
      BY DEF LooksLater
    <2>1. p \in Nat /\ CommaAt(h, p + 1) /\ nxt[p] = p + 2
      BY <1>0
    <2> QED BY <1>2, <2>1
  <1>4. ASSUME NEW p \in Nat, NEW v \in V PROVE ShapeThen(h, from, p, v) \in V
    <2>1. \A rc \in {"BAD_JSON", "TOO_MANY_DIMS", "BAD_SHAPE"} : Reject(rc) \in V
      BY RejectType DEF Codes
    <2>2. Read(p + 2) \in V
      BY ReadType
    <2> HIDE DEF V
    <2> QED BY <2>1, <2>2 DEF ShapeThen
  <1>5. StaysIn(0, to, V, F, e)
    <2>1. Reject("BAD_JSON") \in V
      BY RejectType DEF Codes
    <2>2. \A p \in 0 .. to : p \in Nat /\ e[p] = ShapeThen(h, from, p, Reject("BAD_JSON"))
      BY <1>0
    <2>3. \A p \in 0 .. to : \A v \in V : F[<<p, v>>] = ShapeThen(h, from, p, v)
      OBVIOUS
    <2> HIDE DEF e, F, V, to
    <2> QED BY <1>4, <2>1, <2>2, <2>3 DEF StaysIn
  <1>6. \A p \in 0 .. to : /\ nxt[p] = p + 2 /\ e[p] = ShapeThen(h, from, p, Reject("BAD_JSON"))
                           /\ p \in Go <=> CommaAt(h, p + 1)
                           /\ \A v \in V : F[<<p, v>>] = ShapeThen(h, from, p, v)
    OBVIOUS
  <1> HIDE DEF to, V, Go, nxt, F, e
  <1>7. PICK g : SolvesDownward(g, 0, to, V, Go, nxt, F, e)
    BY <1>0, <1>3, <1>5, DownwardRecursion
  <1> DEFINE d == [p \in Nat |-> IF p \in 0 .. to THEN g[p] ELSE Reject("BAD_JSON")]
  <1>8. \A p \in 0 .. to : g[p] \in V /\ g[p] = IF p \in Go THEN F[<<p, g[nxt[p]]>>] ELSE e[p]
    BY <1>7 DEF SolvesDownward
  <1>9. (\A p \in 0 .. to : d[p] = g[p]) /\ \A p \in Nat : p \notin 0 .. to => d[p] = Reject("BAD_JSON")
    BY <1>0
  <1>10. d = [p \in Nat |-> d[p]]
    OBVIOUS
  <1> HIDE DEF d
  <1>11. ASSUME NEW p \in Nat PROVE d[p] = ShapeStep(h, from, d, p)
    <2>1. CASE CommaAt(h, p + 1)
      <3>1. p \in 0 .. to /\ p + 2 \in 0 .. to
        BY <1>2, <2>1
      <3>a. nxt[p] = p + 2 /\ p \in Go
        BY <1>6, <2>1, <3>1
      <3>b. g[p + 2] \in V /\ g[p] = F[<<p, g[p + 2]>>]
        BY <1>8, <3>1, <3>a
      <3>c. g[p] = ShapeThen(h, from, p, g[p + 2])
        BY <1>6, <3>1, <3>b
      <3>2. d[p] = ShapeThen(h, from, p, d[p + 2])
        BY <1>9, <3>1, <3>c
      <3> QED BY <2>1, <3>2 DEF ShapeStep, ShapeThen
    <2>2. CASE p \in 0 .. to /\ ~CommaAt(h, p + 1)
      <3>1. d[p] = ShapeThen(h, from, p, Reject("BAD_JSON"))
        BY <1>6, <1>8, <1>9, <2>2, ZenonT(40)
      <3> QED BY <2>2, <3>1 DEF ShapeStep, ShapeThen
    <2>3. CASE p \notin 0 .. to
      <3>1. p \notin DOMAIN h
        BY <1>0, <2>3
      <3> QED BY <1>9, <2>3, <3>1 DEF ShapeStep, IsA
    <2> QED BY <2>1, <2>2, <2>3
  <1> QED BY <1>10, <1>11 DEF IsShape

\* What reading the dimensions from p says of them.
AreDims(h, from, p, n, at) ==
  /\ n # 0 /\ IsFlat(h, p, n) /\ at = p + 2 * n /\ At(h, p + 2 * n - 1, "]")
  /\ \A k \in 1 .. n : h[p + 2 * k - 2][2] <= IMax
  /\ (p - from - 1) \div 2 + n <= MaxDims

ReadsDims(h, from, p, r) ==
  r \in Readings /\ (r.rc = "OK" => \E n \in Nat : AreDims(h, from, p, n, r.at))

LEMMA DimsRead ==
  ASSUME NEW h, IsHeader(h), NEW from \in Nat, NEW d, IsShape(h, from, d)
  PROVE  \A p \in from + 1 .. Len(h) + 1 : ReadsDims(h, from, p, d[p])
  <1> DEFINE to == Len(h) + 1
             S == { p \in from + 1 .. to : ReadsDims(h, from, p, d[p]) }
  <1>0. Len(h) \in Nat /\ to \in Int /\ from + 1 \in Int /\ DOMAIN h = 1 .. Len(h) /\ to = Len(h) + 1
    BY DEF IsText, IsHeader
  <1>m. MaxDims \in Nat /\ IMax \in Nat /\ UMax \in Nat
    BY ReaderAssumption DEF IMax
  <1>1. ASSUME NEW p \in from + 1 .. to, \A j \in p + 1 .. to : j \in S PROVE p \in S
    <2> DEFINE r == d[p]
    <2> SUFFICES ReadsDims(h, from, p, r)
      OBVIOUS
    <2>0. p \in Nat /\ p + 1 \in Nat /\ p + 2 \in Nat
      BY <1>0
    <2>1. r = ShapeStep(h, from, d, p)
      BY <2>0 DEF IsShape
    <2>2. ASSUME NEW rc \in {"BAD_JSON", "TOO_MANY_DIMS", "BAD_SHAPE"} PROVE ReadsDims(h, from, p, Reject(rc))
      <3>1. Reject(rc) \in Readings
        BY RejectType DEF Codes
      <3>2. Reject(rc).rc # "OK"
        BY DEF Reject
      <3> QED BY <3>1, <3>2 DEF ReadsDims
    <2> DEFINE Dim == /\ IsA(h, p, "num") /\ ~((p - from - 1) \div 2 >= MaxDims) /\ ~(h[p][2] > IMax)
    <2>3. CASE ~Dim
      BY <2>1, <2>2, <2>3 DEF ShapeStep
    <2>n. ASSUME Dim PROVE h[p][2] <= IMax /\ (p - from - 1) \div 2 + 1 <= MaxDims
      <3>1. h[p][2] \in 0 .. UMax
        BY <2>n DEF IsHeader, IsA
      <3>2. (p - from - 1) \div 2 \in Nat
        BY <1>0
      <3> DEFINE v == h[p][2]
                 k == (p - from - 1) \div 2
      <3>3. ~(v > IMax) /\ v \in Nat /\ ~(k >= MaxDims) /\ k \in Nat
        BY <1>m, <2>n, <3>1, <3>2
      <3> HIDE DEF v, k
      <3>4. v <= IMax /\ k + 1 <= MaxDims
        BY <1>m, <3>3
      <3> QED BY <3>4 DEF v, k
    <2>4. CASE Dim /\ CommaAt(h, p + 1)
      <3>1. p + 1 \in 1 .. Len(h) /\ h[p + 1] = Comma
        BY <1>0, <2>4 DEF CommaAt, At, Comma
      <3>2. p + 2 \in p + 1 .. to
        BY <1>0, <2>0, <3>1
      <3>3. r = d[p + 2] /\ ReadsDims(h, from, p + 2, r)
        BY <1>1, <2>1, <2>4, <3>2 DEF ShapeStep
      <3> HIDE DEF r
      <3> SUFFICES ASSUME r.rc = "OK" PROVE ReadsDims(h, from, p, r)
        BY <3>3 DEF ReadsDims
      <3>a. PICK n \in Nat : AreDims(h, from, p + 2, n, r.at)
        BY <3>3 DEF ReadsDims
      <3>4. /\ n # 0 /\ IsFlat(h, p + 2, n) /\ r.at = (p + 2) + 2 * n
            /\ At(h, (p + 2) + 2 * n - 1, "]")
            /\ \A k \in 1 .. n : h[(p + 2) + 2 * k - 2][2] <= IMax
            /\ ((p + 2) - from - 1) \div 2 + n <= MaxDims
        BY <3>a DEF AreDims
      <3>5. /\ n + 1 \in Nat /\ n + 1 # 0 /\ (p + 2) + 2 * n = p + 2 * (n + 1)
            /\ (p + 2) + 2 * n - 1 = p + 2 * (n + 1) - 1
            /\ ((p + 2) - from - 1) \div 2 + n = (p - from - 1) \div 2 + (n + 1)
        BY <2>0
      <3>6. IsFlat(h, p, n + 1)
        BY <2>0, <2>4, <3>1, <3>4, FlatMore
      <3>7. ASSUME NEW k \in 1 .. n + 1 PROVE h[p + 2 * k - 2][2] <= IMax
        <4>1. CASE k = 1
          <5>1. p + 2 * k - 2 = p
            BY <2>0, <4>1
          <5> QED BY <2>4, <2>n, <5>1
        <4>2. CASE k # 1
          <5> DEFINE l == k - 1
          <5>1. l \in 1 .. n /\ (p + 2) + 2 * l - 2 = p + 2 * k - 2
            BY <2>0, <4>2
          <5> QED BY <3>4, <5>1
        <4> QED BY <4>1, <4>2
      <3>8. AreDims(h, from, p, n + 1, r.at)
        BY <3>4, <3>5, <3>6, <3>7 DEF AreDims
      <3> QED BY <3>3, <3>5, <3>8 DEF ReadsDims
    <2>5. CASE Dim /\ ~CommaAt(h, p + 1) /\ At(h, p + 1, "]")
      <3>1. r = Read(p + 2)
        BY <2>1, <2>5 DEF ShapeStep
      <3>2. r \in Readings /\ r.at = p + 2
        BY <2>0, <3>1, ReadType DEF Read
      <3>3. IsFlat(h, p, 1)
        BY <2>0, <2>5, FlatOne
      <3>4. 1 \in Nat /\ 1 # 0 /\ p + 2 = p + 2 * 1 /\ p + 1 = p + 2 * 1 - 1 /\ p + 2 * 1 - 2 = p /\ 1 .. 1 = {1}
        BY <2>0
      <3> HIDE DEF r
      <3>5. \A k \in 1 .. 1 : h[p + 2 * k - 2][2] <= IMax
        BY <2>5, <2>n, <3>4
      <3>6. AreDims(h, from, p, 1, r.at)
        BY <2>5, <2>n, <3>2, <3>3, <3>4, <3>5 DEF AreDims
      <3> QED BY <3>2, <3>4, <3>6 DEF ReadsDims
    <2>6. CASE Dim /\ ~CommaAt(h, p + 1) /\ ~At(h, p + 1, "]")
      BY <2>1, <2>2, <2>6 DEF ShapeStep
    <2> QED BY <2>3, <2>4, <2>5, <2>6
  <1> HIDE DEF S
  <1>2. \A p \in from + 1 .. to : p \in S
    BY <1>0, <1>1, DownwardInduction, ZenonT(40)
  <1> QED BY <1>2 DEF S

AreExtents(h, from, dims) ==
  \E n \in Nat : /\ dims = [k \in 1 .. n |-> h[from + 2 * k - 1][2]]
                 /\ \A k \in 1 .. n : IsA(h, from + 2 * k - 1, "num")

\* A shape that is read is one of the grammar, with the extents that are kept.
LEMMA ShapeRead ==
  ASSUME NEW h, IsHeader(h), NEW from \in Nat
  PROVE  LET r == Shape(h, from)
             v == <<from, r.at>>
         IN  /\ r \in Readings /\ Forward(r, from, Len(h) + 1)
             /\ r.rc = "OK" =>
                  /\ Item(h, from, r.at) /\ Bracketed(h, v, "[")
                  /\ Cardinality(Inside(h, v)) <= MaxDims
                  /\ \A e \in Inside(h, v) : Single(h, e, "num") /\ h[e[1]][2] <= IMax
                  /\ Numbers(h, v) = Dims(h, from) /\ AreExtents(h, from, Dims(h, from))
  <1> DEFINE d == CHOOSE x : IsShape(h, from, x)
             r == Shape(h, from)
             v == <<from, r.at>>
  <1>0. IsText(h) /\ Len(h) \in Nat /\ DOMAIN h = 1 .. Len(h)
    BY DEF IsHeader, IsText
  <1>m. MaxDims \in Nat
    BY ReaderAssumption
  <1>1. IsShape(h, from, d)
    BY <1>0, ShapeExists
  <1>2. r = IF ~At(h, from, "[") THEN Reject("BAD_JSON")
            ELSE IF At(h, from + 1, "]") THEN Read(from + 2)
            ELSE d[from + 1]
    BY ShapeIs
  <1>d. Dims(h, from) = [k \in 1 .. (r.at - from - 1) \div 2 |-> h[from + 2 * k - 1][2]]
    BY DEF Dims
  <1> SUFFICES /\ r \in Readings /\ Forward(r, from, Len(h) + 1)
               /\ r.rc = "OK" =>
                    /\ Item(h, from, r.at) /\ Bracketed(h, v, "[")
                    /\ Cardinality(Inside(h, v)) <= MaxDims
                    /\ \A e \in Inside(h, v) : Single(h, e, "num") /\ h[e[1]][2] <= IMax
                    /\ Numbers(h, v) = Dims(h, from) /\ AreExtents(h, from, Dims(h, from))
    OBVIOUS
  <1> HIDE DEF d, r
  <1>3. CASE ~At(h, from, "[")
    <2>1. r = Reject("BAD_JSON")
      BY <1>2, <1>3
    <2>2. r \in Readings /\ r.rc # "OK"
      BY <2>1, RejectType DEF Codes, Reject
    <2> QED BY <2>2 DEF Forward
  <1>4. CASE At(h, from, "[") /\ At(h, from + 1, "]")
    <2>1. r = Read(from + 2)
      BY <1>2, <1>4
    <2>2. r \in Readings /\ r.rc = "OK" /\ r.at = from + 2
      BY <2>1, ReadType DEF Read
    <2>3. from + 1 \in 1 .. Len(h) /\ from + 1 \in Nat /\ (from + 1) + 1 = from + 2
      BY <1>0, <1>4 DEF At
    <2>4. "[" \in Kinds /\ At(h, from + 1, CloseOf("["))
      BY <1>4 DEF Kinds, CloseOf
    <2>5. Level(h, from + 1, from + 1) /\ Parts(h, from + 1, from + 1) = {}
      BY <2>3, LevelNone DEF Parts
    <2>6. Item(h, from, from + 2) /\ Bracketed(h, v, "[") /\ Inside(h, v) = {}
      <3>1. \A i : i = from + 1 => /\ At(h, i, CloseOf("[")) /\ Level(h, i, i) /\ Parts(h, i, i) = {}
        BY <2>4, <2>5
      <3>2. PICK i : i = from + 1
        OBVIOUS
      <3>3. Item(h, from, i + 1) /\ Bracketed(h, <<from, i + 1>>, "[") /\ Inside(h, <<from, i + 1>>) = Parts(h, i, i)
        BY <1>4, <2>4, <3>1, <3>2, ItemOfObject
      <3>4. i + 1 = r.at /\ from + 2 = r.at
        BY <2>2, <2>3, <3>2
      <3> QED BY <3>1, <3>2, <3>3, <3>4
    <2>7. Cardinality({}) = 0
      BY FS_EmptySet
    <2>8. Numbers(h, v) = [k \in 1 .. 0 |-> h[from + 2 * k - 1][2]]
      <3>1. DOMAIN InOrder({}) = 1 .. 0
        BY <2>7 DEF InOrder
      <3>2. Numbers(h, v) = [k \in 1 .. 0 |-> h[InOrder({})[k][1]][2]]
        BY <2>6, <3>1 DEF Numbers
      <3> HIDE DEF v
      <3> QED BY <3>2
    <2>9. (from + 2 - from - 1) \div 2 = 0
      OBVIOUS
    <2>10. Numbers(h, v) = Dims(h, from)
      BY <1>d, <2>2, <2>8, <2>9
    <2>11. Forward(r, from, Len(h) + 1)
      BY <1>0, <2>2, <2>3 DEF Forward
    <2>12. AreExtents(h, from, Dims(h, from))
      <3>1. 0 \in Nat /\ \A k \in 1 .. 0 : IsA(h, from + 2 * k - 1, "num")
        OBVIOUS
      <3> QED BY <2>8, <2>10, <3>1 DEF AreExtents
    <2> HIDE DEF v
    <2> QED BY <1>m, <2>2, <2>6, <2>7, <2>10, <2>11, <2>12
  <1>5. CASE At(h, from, "[") /\ ~At(h, from + 1, "]")
    <2>0. from \in 1 .. Len(h)
      BY <1>0, <1>5 DEF At
    <2>1. from + 1 \in from + 1 .. Len(h) + 1
      BY <1>0, <2>0
    <2>2. r = d[from + 1] /\ ReadsDims(h, from, from + 1, r)
      BY <1>1, <1>2, <1>5, <2>1, DimsRead
    <2>3. r \in Readings
      BY <2>2 DEF ReadsDims
    <2>4. CASE r.rc = "OK"
      <3>1. PICK n \in Nat : AreDims(h, from, from + 1, n, r.at)
        BY <2>2, <2>4 DEF ReadsDims
      <3>2. /\ n # 0 /\ IsFlat(h, from + 1, n) /\ r.at = (from + 1) + 2 * n
            /\ At(h, (from + 1) + 2 * n - 1, "]")
            /\ \A k \in 1 .. n : h[(from + 1) + 2 * k - 2][2] <= IMax
            /\ ((from + 1) - from - 1) \div 2 + n <= MaxDims
        BY <3>1 DEF AreDims
      <3>3. /\ r.at = from + 2 * n + 1 /\ (from + 1) + 2 * n - 1 = from + 2 * n
            /\ ((from + 1) - from - 1) \div 2 + n = n /\ (r.at - from - 1) \div 2 = n
        BY <3>2
      <3>4. At(h, from + 2 * n, "]")
        BY <3>2, <3>3
      <3>5. IsListOf(h, from, n, r.at)
        BY <1>5, <3>2, <3>3, <3>4, FlatList
      <3>6. /\ Item(h, from, r.at) /\ Bracketed(h, v, "[") /\ Cardinality(Inside(h, v)) = n
            /\ \A e \in Inside(h, v) : Single(h, e, "num") /\ \E k \in 1 .. n : e[1] = from + 2 * k - 1
            /\ Numbers(h, v) = [k \in 1 .. n |-> h[from + 2 * k - 1][2]]
        BY <3>5 DEF IsListOf
      <3>7. \A k \in 1 .. n : h[from + 2 * k - 1][2] <= IMax
        <4> SUFFICES ASSUME NEW k \in 1 .. n PROVE h[from + 2 * k - 1][2] <= IMax
          OBVIOUS
        <4>1. (from + 1) + 2 * k - 2 = from + 2 * k - 1
          OBVIOUS
        <4> QED BY <3>2, <4>1
      <3>8. Numbers(h, v) = Dims(h, from)
        BY <1>d, <3>3, <3>6
      <3>9. from + 2 * n \in 1 .. Len(h)
        BY <1>0, <3>4 DEF At
      <3>10. Forward(r, from, Len(h) + 1)
        <4>1. r.at > from /\ r.at <= Len(h) + 1
          BY <1>0, <3>3, <3>9
        <4> QED BY <4>1 DEF Forward
      <3> HIDE DEF v
      <3>13. \A k \in 1 .. n : IsA(h, from + 2 * k - 1, "num")
        <4> SUFFICES ASSUME NEW k \in 1 .. n PROVE IsA(h, from + 2 * k - 1, "num")
          OBVIOUS
        <4>1. (from + 1) + 2 * k - 2 = from + 2 * k - 1
          OBVIOUS
        <4>2. IsA(h, (from + 1) + 2 * k - 2, "num")
          BY <3>2 DEF IsFlat
        <4> QED BY <4>1, <4>2
      <3>14. AreExtents(h, from, Dims(h, from))
        <4>1. Dims(h, from) = [k \in 1 .. n |-> h[from + 2 * k - 1][2]]
          BY <3>6, <3>8
        <4> QED BY <3>13, <4>1 DEF AreExtents
      <3>11. \A e \in Inside(h, v) : Single(h, e, "num") /\ h[e[1]][2] <= IMax
        BY <3>6, <3>7
      <3>12. Cardinality(Inside(h, v)) <= MaxDims
        BY <3>2, <3>3, <3>6
      <3> QED BY <2>3, <3>6, <3>8, <3>10, <3>11, <3>12, <3>14
    <2>5. CASE r.rc # "OK"
      BY <2>3, <2>5 DEF Forward
    <2> QED BY <2>4, <2>5
  <1> QED BY <1>3, <1>4, <1>5

\* A range that is read is one of the grammar.
LEMMA OffsetsRead ==
  ASSUME NEW h, IsHeader(h), NEW p \in Nat
  PROVE  LET r == Offsets(h, p)
             v == <<p, r.at>>
         IN  /\ r \in Readings /\ Forward(r, p, Len(h) + 1)
             /\ r.rc = "OK" =>
                  /\ Item(h, p, r.at) /\ Bracketed(h, v, "[")
                  /\ Cardinality(Inside(h, v)) = 2
                  /\ \A e \in Inside(h, v) : Single(h, e, "num")
                  /\ Numbers(h, v) = <<h[p + 1][2], h[p + 3][2]>>
  <1> DEFINE r == Offsets(h, p)
             v == <<p, r.at>>
             Ok == /\ At(h, p, "[") /\ IsA(h, p + 1, "num") /\ CommaAt(h, p + 2)
                   /\ IsA(h, p + 3, "num") /\ At(h, p + 4, "]")
  <1>0. Len(h) \in Nat /\ DOMAIN h = 1 .. Len(h)
    BY DEF IsHeader, IsText
  <1>1. r = IF Ok THEN Read(p + 5) ELSE Reject("BAD_JSON")
    BY DEF Offsets, CommaAt
  <1> SUFFICES /\ r \in Readings /\ Forward(r, p, Len(h) + 1)
               /\ r.rc = "OK" =>
                    /\ Item(h, p, r.at) /\ Bracketed(h, v, "[")
                    /\ Cardinality(Inside(h, v)) = 2
                    /\ \A e \in Inside(h, v) : Single(h, e, "num")
                    /\ Numbers(h, v) = <<h[p + 1][2], h[p + 3][2]>>
    OBVIOUS
  <1> HIDE DEF r
  <1>2. CASE ~Ok
    <2>1. r = Reject("BAD_JSON")
      BY <1>1, <1>2
    <2>2. r \in Readings /\ r.rc # "OK"
      BY <2>1, RejectType DEF Codes, Reject
    <2> QED BY <2>2 DEF Forward
  <1>3. CASE Ok
    <2>1. r = Read(p + 5)
      BY <1>1, <1>3
    <2>2. r \in Readings /\ r.rc = "OK" /\ r.at = p + 5
      BY <2>1, ReadType DEF Read
    <2>3. /\ p + 1 \in Nat /\ p + 3 \in Nat /\ (p + 1) + 1 = p + 2 /\ (p + 1) + 2 = p + 3
          /\ p + 2 * 2 = p + 4 /\ p + 2 * 2 + 1 = p + 5 /\ 1 + 1 = 2 /\ 2 \in Nat
          /\ p + 2 * 1 - 1 = p + 1 /\ p + 2 * 2 - 1 = p + 3
      OBVIOUS
    <2>4. h[(p + 1) + 1] = Comma
      BY <1>3, <2>3 DEF CommaAt, At, Comma
    <2>5. IsFlat(h, p + 3, 1)
      BY <1>3, <2>3, FlatOne
    <2>6. IsFlat(h, p + 1, 2)
      <3>1. IsFlat(h, (p + 1) + 2, 1)
        BY <2>3, <2>5
      <3>2. IsFlat(h, p + 1, 1 + 1)
        BY <1>3, <2>3, <2>4, <3>1, FlatMore
      <3> QED BY <2>3, <3>2
    <2>7. At(h, p + 2 * 2, "]")
      BY <1>3, <2>3
    <2>8. IsListOf(h, p, 2, r.at)
      <3>1. r.at = p + 2 * 2 + 1
        BY <2>2, <2>3
      <3> QED BY <1>3, <2>6, <2>7, <3>1, FlatList
    <2>9. /\ Item(h, p, r.at) /\ Bracketed(h, v, "[") /\ Cardinality(Inside(h, v)) = 2
          /\ \A e \in Inside(h, v) : Single(h, e, "num")
          /\ Numbers(h, v) = [k \in 1 .. 2 |-> h[p + 2 * k - 1][2]]
      BY <2>8 DEF IsListOf
    <2>10. [k \in 1 .. 2 |-> h[p + 2 * k - 1][2]] = <<h[p + 1][2], h[p + 3][2]>>
      BY <2>3
    <2>11. Forward(r, p, Len(h) + 1)
      <3>1. p + 4 \in 1 .. Len(h)
        BY <1>0, <1>3 DEF At
      <3> QED BY <1>0, <2>2, <3>1 DEF Forward
    <2> HIDE DEF v
    <2> QED BY <2>2, <2>9, <2>10, <2>11
  <1> QED BY <1>2, <1>3

\* A member of an entry that is read is one of the grammar.
LEMMA TensorMemberRead ==
  ASSUME NEW h, IsHeader(h), NEW p \in Nat
  PROVE  LET r == TensorMember(h, p)
         IN  /\ r \in Readings /\ Forward(r, p, Len(h) + 1)
             /\ r.rc = "OK" => Item(h, p, r.at) /\ IsMember(h, <<p, r.at>>)
  <1> DEFINE r == TensorMember(h, p)
             v == <<p + 2, r.at>>
             key == h[p][2]
             Good == /\ r \in Readings /\ Forward(r, p + 2, Len(h) + 1)
                     /\ r.rc = "OK" => Item(h, p + 2, r.at) /\ KeyAt(h, p)
  <1>0. IsText(h) /\ Len(h) \in Nat /\ DOMAIN h = 1 .. Len(h) /\ p + 2 \in Nat
    BY DEF IsHeader, IsText
  <1>1. r = IF ~KeyAt(h, p) THEN Reject("BAD_JSON")
            ELSE CASE key = "dtype" ->
                        IF ~IsA(h, p + 2, "str") THEN Reject("BAD_JSON")
                        ELSE IF h[p + 2][2] \in DOMAIN DtypeSize THEN Read(p + 3)
                        ELSE Reject("BAD_DTYPE")
                   [] key = "shape" -> Shape(h, p + 2)
                   [] key = "data_offsets" -> Offsets(h, p + 2)
                   [] OTHER -> Skip(h, p + 2)
    BY DEF TensorMember
  <1> SUFFICES /\ r \in Readings /\ Forward(r, p, Len(h) + 1)
               /\ r.rc = "OK" => Item(h, p, r.at) /\ IsMember(h, <<p, r.at>>)
    OBVIOUS
  <1> HIDE DEF r
  <1>2. ASSUME NEW rc \in {"BAD_JSON", "BAD_DTYPE"}, r = Reject(rc) PROVE r \in Readings /\ r.rc # "OK"
    BY <1>2, RejectType DEF Codes, Reject
  <1>3. CASE ~KeyAt(h, p)
    <2>1. r = Reject("BAD_JSON")
      BY <1>1, <1>3
    <2> QED BY <1>2, <2>1 DEF Forward
  <1>4. ASSUME KeyAt(h, p), r \in Readings, Forward(r, p + 2, Len(h) + 1),
               r.rc = "OK" => Item(h, p + 2, r.at)
        PROVE  /\ Forward(r, p, Len(h) + 1)
               /\ r.rc = "OK" => Item(h, p, r.at) /\ Keyed(h, <<p, r.at>>) /\ ValueOf(<<p, r.at>>) = v
    <2>1. r.at \in Nat
      BY <1>4 DEF Readings
    <2>2. Forward(r, p, Len(h) + 1)
      BY <1>0, <1>4, <2>1 DEF Forward
    <2> QED BY <1>4, <2>2, ItemOfKeyed
  <1>5. r.rc = "OK" => <<p, r.at>>[1] = p
    OBVIOUS
  <1>6. CASE KeyAt(h, p) /\ key = "dtype"
    <2>1. r = IF ~IsA(h, p + 2, "str") THEN Reject("BAD_JSON")
              ELSE IF h[p + 2][2] \in DOMAIN DtypeSize THEN Read(p + 3)
              ELSE Reject("BAD_DTYPE")
      BY <1>1, <1>6
    <2>2. CASE IsA(h, p + 2, "str") /\ h[p + 2][2] \in DOMAIN DtypeSize
      <3>1. r = Read(p + 3) /\ p + 3 \in Nat /\ (p + 2) + 1 = p + 3
        BY <2>1, <2>2
      <3>2. r \in Readings /\ r.at = p + 3
        BY <3>1, ReadType DEF Read
      <3>3. Item(h, p + 2, r.at) /\ Single(h, v, "str")
        <4>1. Item(h, p + 2, (p + 2) + 1) /\ Single(h, <<p + 2, (p + 2) + 1>>, "str")
          BY <1>0, <2>2, ItemOfScalar
        <4> QED BY <3>1, <3>2, <4>1
      <3>4. Forward(r, p + 2, Len(h) + 1)
        <4>1. p + 2 \in 1 .. Len(h)
          BY <1>0, <2>2 DEF IsA
        <4> QED BY <1>0, <3>2, <4>1 DEF Forward
      <3>5. v[1] = p + 2
        OBVIOUS
      <3> HIDE DEF v
      <3> QED BY <1>4, <1>5, <1>6, <2>2, <3>2, <3>3, <3>4, <3>5 DEF IsMember
    <2>3. CASE ~(IsA(h, p + 2, "str") /\ h[p + 2][2] \in DOMAIN DtypeSize)
      BY <1>2, <2>1, <2>3 DEF Forward
    <2> QED BY <2>2, <2>3
  <1>7. CASE KeyAt(h, p) /\ key = "shape"
    <2>1. r = Shape(h, p + 2)
      BY <1>1, <1>7
    <2>2. /\ r \in Readings /\ Forward(r, p + 2, Len(h) + 1)
          /\ r.rc = "OK" => /\ Item(h, p + 2, r.at) /\ Bracketed(h, v, "[")
                            /\ Cardinality(Inside(h, v)) <= MaxDims
                            /\ \A e \in Inside(h, v) : Single(h, e, "num") /\ h[e[1]][2] <= IMax
      BY <1>0, <2>1, ShapeRead
    <2> HIDE DEF v
    <2> QED BY <1>4, <1>5, <1>7, <2>2 DEF IsMember
  <1>8. CASE KeyAt(h, p) /\ key = "data_offsets"
    <2>1. r = Offsets(h, p + 2)
      BY <1>1, <1>8
    <2>2. /\ r \in Readings /\ Forward(r, p + 2, Len(h) + 1)
          /\ r.rc = "OK" => /\ Item(h, p + 2, r.at) /\ Bracketed(h, v, "[")
                            /\ Cardinality(Inside(h, v)) = 2
                            /\ \A e \in Inside(h, v) : Single(h, e, "num")
      BY <1>0, <2>1, OffsetsRead
    <2> HIDE DEF v
    <2> QED BY <1>4, <1>5, <1>8, <2>2 DEF IsMember
  <1>9. CASE KeyAt(h, p) /\ key \notin {"dtype", "shape", "data_offsets"}
    <2>1. r = Skip(h, p + 2)
      BY <1>1, <1>9
    <2> DEFINE Scalars == {"str", "raw", "num"}
    <2>2. r = SkipValue(h, p + 2, Scalars)
      BY <2>1 DEF Skip
    <2>3. Scalars \in SUBSET Plain
      BY DEF Plain
    <2> HIDE DEF Scalars
    <2>4. r \in Results /\ Forward(r, p + 2, Len(h) + 1)
      BY <1>0, <2>2, SkipMoves
    <2>5. r \in Readings
      BY <2>4 DEF Results, Readings, Codes
    <2>6. r.rc = "OK" => Item(h, p + 2, r.at) /\ IsSkipped(h, v, Scalars)
      BY <1>0, <2>2, <2>3, SkipReads
    <2>7. IsSkipped(h, v, Scalars) = IsValue(h, v)
      BY DEF IsValue, Scalars
    <2> HIDE DEF v
    <2> QED BY <1>4, <1>5, <1>9, <2>4, <2>5, <2>6, <2>7 DEF IsMember
  <1> QED BY <1>3, <1>6, <1>7, <1>8, <1>9

-----------------------------------------------------------------------------
(* An entry that declares a tensor.                                        *)

EntryMembers(h) == [p \in 1 .. Len(h) + 1 |-> TensorMember(h, p)]

LEMMA EntryReader ==
  ASSUME NEW h, IsHeader(h)
  PROVE  IsText(h) /\ IsReader(h, EntryMembers(h))
  <1>0. IsText(h) /\ Len(h) \in Nat
    BY DEF IsHeader, IsText
  <1> SUFFICES ASSUME NEW p \in 1 .. Len(h) + 1
               PROVE  LET r == EntryMembers(h)[p]
                      IN  /\ r \in Readings /\ Forward(r, p, Len(h) + 1)
                          /\ r.rc = "OK" => Item(h, p, r.at)
    BY <1>0 DEF IsReader
  <1>1. p \in Nat
    BY <1>0
  <1>2. EntryMembers(h)[p] = TensorMember(h, p)
    BY DEF EntryMembers
  <1> QED BY <1>1, <1>2, TensorMemberRead

\* The members S of an object, where they begin, and how they read.
AreMembers(h, member, S, begin) ==
  /\ begin = { m[1] : m \in S } /\ MembersOf(h, member, S)
  /\ \A m \in S : m = <<m[1], m[2]>> /\ m[1] \in 1 .. Len(h) + 1

NamesOf(h, begin) == { h[b][2] : b \in begin }

LastIs(h, member, s, begin, key) ==
  LET b == LastOf(h, begin, key)
  IN  /\ b \in begin /\ b \in 1 .. Len(h) + 1 /\ h[b][2] = key /\ member[b].rc = "OK"
      /\ LastValue(h, s, key) = <<b + 2, member[b].at>>

\* The last member of a name is the last that begins.
LEMMA LastRead ==
  ASSUME NEW h, IsText(h), NEW member, NEW s, NEW begin, NEW key,
         AreMembers(h, member, Inside(h, ValueOf(s)), begin),
         key \in NamesOf(h, begin)
  PROVE  LastIs(h, member, s, begin, key)
  <1> DEFINE S == Inside(h, ValueOf(s))
             N == { b \in begin : h[b][2] = key }
             named == { m \in S : h[m[1]][2] = key }
             b == LastOf(h, begin, key)
             m0 == CHOOSE m \in named : \A n \in named : n[1] <= m[1]
  <1>0. Len(h) \in Nat /\ Len(h) + 1 \in Nat
    BY DEF IsText
  <1>1. /\ begin = { m[1] : m \in S } /\ MembersOf(h, member, S)
        /\ \A m \in S : m = <<m[1], m[2]>> /\ m[1] \in 1 .. Len(h) + 1
    BY DEF AreMembers
  <1>2. LastValue(h, s, key) = <<m0[1] + 2, m0[2]>>
    BY DEF LastValue, ValueOf
  <1> HIDE DEF S
  <1>3. N \in SUBSET (0 .. Len(h) + 1) /\ N # {}
    <2>1. \A c \in begin : c \in 0 .. Len(h) + 1
      BY <1>0, <1>1
    <2>2. \E c \in begin : h[c][2] = key
      BY DEF NamesOf
    <2> QED BY <1>0, <2>1, <2>2
  <1>4. PICK x \in N : \A c \in N : c <= x
    BY <1>0, <1>3, MaxProperties
  <1>5. b \in begin /\ h[b][2] = key /\ \A c \in begin : h[c][2] = key => c <= b
    BY <1>4 DEF LastOf
  <1> HIDE DEF b
  <1>6. b \in 1 .. Len(h) + 1 /\ b \in Nat
    BY <1>0, <1>1, <1>5
  <1>7. PICK m \in S : m[1] = b
    BY <1>1, <1>5
  <1>8. m \in named
    BY <1>5, <1>7
  <1>9. \A n \in named : n[1] <= m[1] /\ n[1] \in Nat
    BY <1>0, <1>1, <1>5, <1>7
  <1>10. m0 \in named /\ \A n \in named : n[1] <= m0[1]
    BY <1>8, <1>9
  <1> HIDE DEF m0
  <1>11. m0[1] = b /\ m0 \in S
    BY <1>6, <1>7, <1>8, <1>9, <1>10
  <1>12. member[b].rc = "OK" /\ member[b].at = m0[2]
    BY <1>1, <1>11 DEF MembersOf
  <1> QED BY <1>2, <1>5, <1>6, <1>11, <1>12 DEF b, LastIs

\* A product that does not overflow is the product without a width.
IsElements(dims, f) ==
  f = [k \in 0 .. Len(dims) |->
         IF k = 0 THEN 1
         ELSE IF f[k - 1] = -1 \/ f[k - 1] * dims[k] > UMax THEN -1
         ELSE f[k - 1] * dims[k]]

IsProduct(dims, n, f) == f = [k \in 0 .. n |-> IF k = 0 THEN 1 ELSE f[k - 1] * dims[k]]

LEMMA ElementsAre ==
  ASSUME NEW t, NEW dims, dims = t.dims, Len(dims) \in Nat, \A k \in 1 .. Len(dims) : dims[k] \in Nat,
         Elements(dims) # -1
  PROVE  Bytes(t, Len(t.dims)) = Elements(dims) * DtypeSize[t.dtype]
  <1> DEFINE n == Len(dims)
             f == CHOOSE x : IsElements(dims, x)
             g == CHOOSE x : IsProduct(dims, n, x)
             E == [kv \in (1 .. n) \X (Nat \cup {-1}) |->
                     IF kv[2] = -1 \/ kv[2] * dims[kv[1]] > UMax THEN -1 ELSE kv[2] * dims[kv[1]]]
             P == [kv \in (1 .. n) \X Nat |-> kv[2] * dims[kv[1]]]
  <1>0. n \in Nat /\ -1 \notin Nat /\ UMax \in Nat
    BY ReaderAssumption
  <1>1. Elements(dims) = f[n]
    BY DEF Elements, IsElements
  <1>2. Bytes(t, Len(t.dims)) = g[n] * DtypeSize[t.dtype]
    BY DEF Bytes, IsProduct
  <1>3. IsElements(dims, f)
    <2>1. \A k \in 1 .. n : \A v \in Nat \cup {-1} : E[<<k, v>>] \in Nat \cup {-1}
      <3> SUFFICES ASSUME NEW k \in 1 .. n, NEW v \in Nat \cup {-1}, v # -1
                   PROVE  v * dims[k] \in Nat
        OBVIOUS
      <3>1. v \in Nat /\ dims[k] \in Nat
        OBVIOUS
      <3> QED BY <3>1
    <2>2. \A k \in 1 .. n : \A v \in Nat \cup {-1} :
            E[<<k, v>>] = IF v = -1 \/ v * dims[k] > UMax THEN -1 ELSE v * dims[k]
      OBVIOUS
    <2> HIDE DEF E, n
    <2>3. PICK x : SolvesForward(x, n, Nat \cup {-1}, 1, E)
      BY <1>0, <2>1, ForwardRecursion
    <2>4. x \in [0 .. n -> Nat \cup {-1}] /\ \A k \in 0 .. n : x[k] = IF k = 0 THEN 1 ELSE E[<<k, x[k - 1]>>]
      BY <2>3 DEF SolvesForward
    <2>5. ASSUME NEW k \in 0 .. n, k # 0
          PROVE  x[k] = IF x[k - 1] = -1 \/ x[k - 1] * dims[k] > UMax THEN -1 ELSE x[k - 1] * dims[k]
      <3>1. k \in 1 .. n /\ k - 1 \in 0 .. n
        BY <1>0, <2>5
      <3>2. x[k - 1] \in Nat \cup {-1}
        BY <2>4, <3>1
      <3> QED BY <2>2, <2>4, <2>5, <3>1, <3>2
    <2>6. IsElements(dims, x)
      BY <2>4, <2>5 DEF IsElements, n
    <2> QED BY <2>6
  <1>4. IsProduct(dims, n, g)
    <2>1. \A k \in 1 .. n : \A v \in Nat : P[<<k, v>>] \in Nat
      <3> SUFFICES ASSUME NEW k \in 1 .. n, NEW v \in Nat PROVE v * dims[k] \in Nat
        OBVIOUS
      <3>1. dims[k] \in Nat
        OBVIOUS
      <3> QED BY <3>1
    <2>2. \A k \in 1 .. n : \A v \in Nat : P[<<k, v>>] = v * dims[k]
      OBVIOUS
    <2> HIDE DEF P, n
    <2>3. PICK x : SolvesForward(x, n, Nat, 1, P)
      BY <1>0, <2>1, ForwardRecursion
    <2>4. x \in [0 .. n -> Nat] /\ \A k \in 0 .. n : x[k] = IF k = 0 THEN 1 ELSE P[<<k, x[k - 1]>>]
      BY <2>3 DEF SolvesForward
    <2>5. ASSUME NEW k \in 0 .. n, k # 0 PROVE x[k] = x[k - 1] * dims[k]
      <3>1. k \in 1 .. n /\ k - 1 \in 0 .. n
        BY <1>0, <2>5
      <3> QED BY <2>2, <2>4, <2>5, <3>1
    <2>6. IsProduct(dims, n, x)
      BY <2>4, <2>5 DEF IsProduct
    <2> QED BY <2>6
  <1> HIDE DEF f, g, n
  <1> DEFINE S == { k \in Nat : k <= n /\ f[k] # -1 => f[k] = g[k] }
  <1>5. \A k \in 1 .. n : f[k] = IF f[k - 1] = -1 \/ f[k - 1] * dims[k] > UMax THEN -1 ELSE f[k - 1] * dims[k]
    <2>1. \A k \in 0 .. n : f[k] = IF k = 0 THEN 1
                                ELSE IF f[k - 1] = -1 \/ f[k - 1] * dims[k] > UMax THEN -1
                                ELSE f[k - 1] * dims[k]
      BY <1>3 DEF IsElements, n
    <2>2. \A k \in 1 .. n : k \in 0 .. n /\ k # 0
      BY <1>0
    <2> QED BY <2>1, <2>2
  <1>6. \A k \in 1 .. n : g[k] = g[k - 1] * dims[k]
    BY <1>0, <1>4 DEF IsProduct
  <1>7. f[0] = 1 /\ g[0] = 1
    BY <1>0, <1>3, <1>4 DEF IsElements, IsProduct, n
  <1>8. 0 \in S
    BY <1>7
  <1>9. ASSUME NEW k \in Nat, k \in S PROVE k + 1 \in S
    <2> SUFFICES ASSUME k + 1 <= n, f[k + 1] # -1 PROVE f[k + 1] = g[k + 1]
      OBVIOUS
    <2>1. k + 1 \in 1 .. n /\ (k + 1) - 1 = k /\ k <= n
      BY <1>0
    <2>2. f[k + 1] = f[k] * dims[k + 1] /\ f[k] # -1 /\ g[k + 1] = g[k] * dims[k + 1]
      BY <1>5, <1>6, <2>1
    <2>3. f[k] = g[k]
      BY <1>9, <2>1, <2>2
    <2> QED BY <2>2, <2>3
  <1> HIDE DEF S
  <1>10. Nat \subseteq S
    BY <1>8, <1>9, Induction
  <1>11. f[n] = g[n]
    BY <1>0, <1>1, <1>10 DEF S
  <1> QED BY <1>1, <1>2, <1>11

\* A file whose header is all there.
HasHeader(w) == w \in Weights /\ ~w.tiny /\ w.prefix <= Len(w.cells)

LEMMA HeaderIs ==
  ASSUME NEW w, HasHeader(w)
  PROVE  /\ IsHeader(Header(w)) /\ Len(Header(w)) = w.prefix /\ w.prefix \in Nat
         /\ DataBytes(w) \in Nat
  <1> DEFINE S == { w.cells[k] : k \in DOMAIN w.cells }
             c == w.cells
             n == w.prefix
  <1>1. c \in Seq(S) /\ n \in Nat /\ \A k \in DOMAIN c : c[k][1] = "num" => c[k][2] \in 0 .. UMax
    BY ReaderAssumption DEF HasHeader
  <1>2. n <= Len(c) /\ Header(w) = SubSeq(c, 1, n) /\ DataBytes(w) = Len(c) - n
    BY DEF HasHeader, Header, DataBytes
  <1> HIDE DEF S, c, n
  <1>3. Len(c) \in Nat /\ DOMAIN c = 1 .. Len(c)
    BY <1>1
  <1>4. Header(w) = [k \in 1 .. n |-> c[k]] /\ Len(Header(w)) = n
    <2>1. 1 \in 1 .. n + 1 /\ n \in 0 .. Len(c) /\ 1 \in 1 .. Len(c) + 1
      BY <1>1, <1>2, <1>3
    <2>2. SubSeq(c, 1, n) = [k \in 1 .. n |-> c[k]]
      BY <1>1 DEF SubSeq
    <2>3. SubSeq(c, 1, n) \in [1 .. n -> S]
      <3>1. \A k \in 1 .. n : k \in 1 .. Len(c)
        BY <1>1, <1>2, <1>3
      <3>2. \A k \in 1 .. Len(c) : c[k] \in S
        BY <1>1
      <3> QED BY <2>2, <3>1, <3>2
    <2>4. Len(SubSeq(c, 1, n)) = n
      BY <1>1, <2>3, FunctionIsSeq
    <2> QED BY <1>2, <2>2, <2>4
  <1>5. DOMAIN Header(w) = 1 .. n /\ \A k \in 1 .. n : Header(w)[k] = c[k] /\ k \in DOMAIN c
    BY <1>1, <1>2, <1>3, <1>4
  <1>6. IsHeader(Header(w))
    BY <1>1, <1>4, <1>5 DEF IsHeader, IsText
  <1>7. DataBytes(w) \in Nat
    BY <1>1, <1>2, <1>3
  <1> QED BY <1>1, <1>4, <1>6, <1>7 DEF n

\* The header's brackets by name.
TensorAt(h, s, w) ==
  LET v == ValueOf(s)
      t == Declared(h, s, w)
  IN  /\ Keyed(h, s) /\ h[s[1]][2] # "__metadata__" /\ Bracketed(h, v, Brace)
      /\ \A m \in Inside(h, v) : IsMember(h, m)
      /\ {"dtype", "shape", "data_offsets"} \subseteq { h[m[1]][2] : m \in Inside(h, v) }
      /\ t.begin <= t.end /\ t.end <= DataBytes(w)
      /\ Bytes(t, Len(t.dims)) = t.nbytes

LEMMA TensorAtIs ==
  ASSUME NEW h, NEW s, NEW w, TensorAt(h, s, w)
  PROVE  IsTensor(h, s, w)
  BY DEF TensorAt, IsTensor, Brace

\* What the reader checks of a tensor's size.
HoldsElements(t) ==
  /\ t.begin \in Nat /\ t.end \in Nat /\ t.begin <= t.end
  /\ Elements(t.dims) # -1 /\ ~(Elements(t.dims) * DtypeSize[t.dtype] > UMax)
  /\ Elements(t.dims) * DtypeSize[t.dtype] = t.nbytes

IsDeclared(h, s, w, t) ==
  /\ t = Declared(h, s, w)
  /\ Len(t.dims) \in Nat /\ \A k \in 1 .. Len(t.dims) : t.dims[k] \in Nat
  /\ t.begin \in Nat /\ t.end \in Nat /\ t.nbytes = t.end - t.begin

\* The tensor read from members is the one the grammar declares.
LEMMA TensorDeclared ==
  ASSUME NEW h, IsHeader(h), NEW s, NEW w, NEW begin, NEW name, name = h[s[1]][2],
         AreMembers(h, EntryMembers(h), Inside(h, ValueOf(s)), begin),
         {"dtype", "shape", "data_offsets"} \subseteq NamesOf(h, begin)
  PROVE  IsDeclared(h, s, w, Tensor(h, name, begin, w))
  <1> DEFINE D == LastOf(h, begin, "dtype")
             X == LastOf(h, begin, "shape")
             O == LastOf(h, begin, "data_offsets")
             m == EntryMembers(h)
             t == Tensor(h, name, begin, w)
  <1>0. IsText(h) /\ Len(h) \in Nat /\ DOMAIN h = 1 .. Len(h)
    BY DEF IsHeader, IsText
  <1>1. \A key : key \in NamesOf(h, begin) => LastIs(h, m, s, begin, key)
    BY <1>0, LastRead
  <1>2. /\ D \in begin /\ D \in 1 .. Len(h) + 1 /\ LastValue(h, s, "dtype") = <<D + 2, m[D].at>>
        /\ X \in begin /\ X \in 1 .. Len(h) + 1 /\ h[X][2] = "shape" /\ m[X].rc = "OK"
        /\ LastValue(h, s, "shape") = <<X + 2, m[X].at>>
        /\ O \in begin /\ O \in 1 .. Len(h) + 1 /\ h[O][2] = "data_offsets" /\ m[O].rc = "OK"
        /\ LastValue(h, s, "data_offsets") = <<O + 2, m[O].at>>
    BY <1>1 DEF LastIs
  <1>3. X \in 1 .. Len(h) + 1 /\ O \in 1 .. Len(h) + 1 /\ D \in Nat /\ X \in Nat /\ O \in Nat
    BY <1>0, <1>2
  <1>4. m[X] = TensorMember(h, X) /\ m[O] = TensorMember(h, O)
    BY <1>3 DEF EntryMembers
  <1>t. t = [name |-> name, dtype |-> h[D + 2][2], dims |-> Dims(h, X + 2),
             begin |-> h[O + 2 + 1][2], end |-> h[O + 2 + 3][2],
             file_offset |-> DataOffset(w) + h[O + 2 + 1][2], nbytes |-> h[O + 2 + 3][2] - h[O + 2 + 1][2]]
    BY DEF Tensor
  <1>5. KeyAt(h, X) /\ KeyAt(h, O)
    <2>1. \A p : TensorMember(h, p).rc = "OK" => KeyAt(h, p)
      BY DEF TensorMember, Reject
    <2> QED BY <1>2, <1>4, <2>1
  <1>6. m[X] = Shape(h, X + 2)
    <2>1. KeyAt(h, X) /\ h[X][2] = "shape" => TensorMember(h, X) = Shape(h, X + 2)
      BY DEF TensorMember
    <2> QED BY <1>2, <1>4, <1>5, <2>1
  <1>7. m[O] = Offsets(h, O + 2)
    <2>1. KeyAt(h, O) /\ h[O][2] = "data_offsets" => TensorMember(h, O) = Offsets(h, O + 2)
      BY DEF TensorMember
    <2> QED BY <1>2, <1>4, <1>5, <2>1
  <1> HIDE DEF D, X, O, m, t
  <1>8. X + 2 \in Nat /\ O + 2 \in Nat
    BY <1>3
  <1>9. Numbers(h, LastValue(h, s, "shape")) = Dims(h, X + 2)
    BY <1>2, <1>6, <1>8, ShapeRead
  <1>10. Numbers(h, LastValue(h, s, "data_offsets")) = <<h[O + 2 + 1][2], h[O + 2 + 3][2]>>
    BY <1>2, <1>7, <1>8, OffsetsRead
  <1>11. h[LastValue(h, s, "dtype")[1]][2] = h[D + 2][2]
    BY <1>2
  <1>12. t = Declared(h, s, w)
    BY <1>t, <1>9, <1>10, <1>11 DEF Declared, DataOffset
  <1>13. \A p : IsA(h, p, "num") => h[p][2] \in Nat
    <2>1. UMax \in Nat
      BY ReaderAssumption
    <2> QED BY <2>1 DEF IsA, IsHeader
  <1>14. t.begin \in Nat /\ t.end \in Nat
    <2>1. IsA(h, O + 2 + 1, "num") /\ IsA(h, O + 2 + 3, "num")
      <3>1. \A p : Offsets(h, p).rc = "OK" => IsA(h, p + 1, "num") /\ IsA(h, p + 3, "num")
        BY DEF Offsets, Reject
      <3> QED BY <1>2, <1>7, <3>1
    <2> QED BY <1>t, <1>13, <2>1
  <1>15. Len(t.dims) \in Nat /\ \A k \in 1 .. Len(t.dims) : t.dims[k] \in Nat
    <2>1. AreExtents(h, X + 2, Dims(h, X + 2))
      BY <1>2, <1>6, <1>8, ShapeRead
    <2>2. PICK n \in Nat : /\ t.dims = [k \in 1 .. n |-> h[X + 2 + 2 * k - 1][2]]
                           /\ \A k \in 1 .. n : IsA(h, X + 2 + 2 * k - 1, "num")
      BY <1>t, <2>1 DEF AreExtents
    <2>3. \A k \in 1 .. n : h[X + 2 + 2 * k - 1][2] \in Nat
      BY <1>13, <2>2
    <2>4. t.dims \in [1 .. n -> Nat]
      BY <2>2, <2>3
    <2>5. Len(t.dims) = n
      BY <2>4, FunctionIsSeq
    <2> QED BY <2>4, <2>5
  <1>16. t.nbytes = t.end - t.begin
    BY <1>t
  <1> QED BY <1>12, <1>14, <1>15, <1>16 DEF t, IsDeclared

\* What an entry of the header that is read is.
IsEntry(h, w, s, t) ==
  Item(h, s[1], s[2]) /\ IsTensor(h, s, w) /\ t = Declared(h, s, w) /\ HoldsElements(t)

\* What TensorStatus checked of the tensor it accepts.
LEMMA StatusIs ==
  ASSUME NEW h, NEW w, NEW members, NEW name, TensorStatus(h, members, name, w) = "OK"
  PROVE  LET t == Tensor(h, name, members.begin, w)
         IN  /\ members.rc = "OK" /\ {"dtype", "shape", "data_offsets"} \subseteq NamesOf(h, members.begin)
             /\ ~(t.end < t.begin) /\ ~(t.end > DataBytes(w))
             /\ Elements(t.dims) # -1 /\ ~(Elements(t.dims) * DtypeSize[t.dtype] > UMax)
             /\ Elements(t.dims) * DtypeSize[t.dtype] = t.nbytes
  <1> DEFINE t == Tensor(h, name, members.begin, w)
             e == Elements(t.dims)
             keys == NamesOf(h, members.begin)
  <1>1. TensorStatus(h, members, name, w)
          = IF members.rc # "OK" THEN members.rc
            ELSE IF ~{"dtype", "data_offsets"} \subseteq keys THEN "BAD_JSON"
            ELSE IF "shape" \notin keys THEN "BAD_SHAPE"
            ELSE IF t.end < t.begin \/ t.end > DataBytes(w) THEN "RANGE"
            ELSE IF e = -1 \/ e * DtypeSize[t.dtype] > UMax THEN "SIZE_MISMATCH"
            ELSE IF e * DtypeSize[t.dtype] # t.nbytes THEN "SIZE_MISMATCH"
            ELSE "OK"
    BY DEF TensorStatus, NamesOf
  <1> HIDE DEF t, e, keys
  <1>2. /\ members.rc = "OK" /\ {"dtype", "data_offsets"} \subseteq keys /\ "shape" \in keys
        /\ ~(t.end < t.begin) /\ ~(t.end > DataBytes(w))
        /\ e # -1 /\ ~(e * DtypeSize[t.dtype] > UMax) /\ e * DtypeSize[t.dtype] = t.nbytes
    BY <1>1
  <1> QED BY <1>2 DEF t, e, keys

LEMMA EntryRead ==
  ASSUME NEW w, HasHeader(w), NEW h, h = Header(w), NEW p \in Nat, KeyAt(h, p), h[p][2] # "__metadata__",
         NEW members, members = Members(h, p + 2, EntryMembers(h)),
         TensorStatus(h, members, h[p][2], w) = "OK"
  PROVE  /\ members.at \in Nat
         /\ IsEntry(h, w, <<p, members.at>>, Tensor(h, h[p][2], members.begin, w))
  <1> DEFINE q == members.at
             begin == members.begin
             s == <<p, q>>
             v == <<p + 2, q>>
             name == h[p][2]
             t == Tensor(h, name, begin, w)
             m == EntryMembers(h)
             L == Len(t.dims)
             e == Elements(t.dims)
  <1>0. IsHeader(h) /\ DataBytes(w) \in Nat /\ p + 2 \in Nat
    BY HeaderIs
  <1>a. IsText(h) /\ IsReader(h, m)
    BY <1>0, EntryReader
  <1>1. /\ members.rc = "OK" /\ {"dtype", "shape", "data_offsets"} \subseteq NamesOf(h, begin)
        /\ ~(t.end < t.begin) /\ ~(t.end > DataBytes(w))
        /\ e # -1 /\ ~(e * DtypeSize[t.dtype] > UMax) /\ e * DtypeSize[t.dtype] = t.nbytes
    BY StatusIs
  <1>b. Members(h, p + 2, m).rc = "OK" /\ members = Members(h, p + 2, m)
    BY <1>1
  <1>c. \A f : f = p + 2 /\ Members(h, f, m).rc = "OK" => IsObject(h, m, f, Members(h, f, m))
    <2> SUFFICES ASSUME NEW f, f = p + 2, Members(h, f, m).rc = "OK" PROVE IsObject(h, m, f, Members(h, f, m))
      OBVIOUS
    <2>1. f \in Nat
      BY <1>0
    <2> HIDE DEF m
    <2> QED BY <1>a, <2>1, MembersRead
  <1>2. IsObject(h, m, p + 2, members)
    BY <1>b, <1>c
  <1> HIDE DEF m
  <1>3. /\ q \in Nat /\ Item(h, p + 2, q) /\ Bracketed(h, v, Brace)
        /\ begin = { i[1] : i \in Inside(h, v) } /\ MembersOf(h, m, Inside(h, v))
        /\ \A i \in Inside(h, v) : i = <<i[1], i[2]>> /\ i[1] \in 1 .. Len(h) + 1
    BY <1>2 DEF IsObject
  <1>4. Item(h, p, q) /\ Keyed(h, s) /\ ValueOf(s) = v
    BY <1>3, ItemOfKeyed
  <1>5. AreMembers(h, m, Inside(h, ValueOf(s)), begin)
    BY <1>3, <1>4 DEF AreMembers
  <1>s. s[1] = p /\ s[2] = q
    OBVIOUS
  <1> HIDE DEF begin, v, q, s
  <1>6. /\ t = Declared(h, s, w)
        /\ Len(t.dims) \in Nat /\ \A k \in 1 .. Len(t.dims) : t.dims[k] \in Nat
        /\ t.begin \in Nat /\ t.end \in Nat /\ t.nbytes = t.end - t.begin
    <2>1. name = h[s[1]][2]
      BY <1>s
    <2>2. AreMembers(h, EntryMembers(h), Inside(h, ValueOf(s)), begin)
      BY <1>5 DEF m
    <2> HIDE DEF name
    <2>3. IsDeclared(h, s, w, t)
      BY <1>0, <1>1, <2>1, <2>2, TensorDeclared
    <2> HIDE DEF t
    <2> QED BY <2>3 DEF IsDeclared
  <1> HIDE DEF t, name
  <1>7. Bytes(t, Len(t.dims)) = t.nbytes
    <2>1. Bytes(t, Len(t.dims)) = e * DtypeSize[t.dtype]
      BY <1>1, <1>6, ElementsAre
    <2> QED BY <1>1, <2>1
  <1>8. t.begin <= t.end /\ t.end <= DataBytes(w)
    BY <1>0, <1>1, <1>6
  <1>9. HoldsElements(t)
    BY <1>1, <1>6, <1>8 DEF HoldsElements
  <1>10. \A i \in Inside(h, v) : IsMember(h, i)
    <2> SUFFICES ASSUME NEW i \in Inside(h, v) PROVE IsMember(h, i)
      OBVIOUS
    <2>1. i = <<i[1], i[2]>> /\ i[1] \in 1 .. Len(h) + 1 /\ i[1] \in Nat
      BY <1>3, <1>a DEF IsText
    <2>2. m[i[1]] = TensorMember(h, i[1]) /\ m[i[1]].rc = "OK" /\ m[i[1]].at = i[2]
      BY <1>3, <2>1 DEF MembersOf, m, EntryMembers
    <2>3. IsMember(h, <<i[1], TensorMember(h, i[1]).at>>)
      BY <1>0, <2>1, <2>2, TensorMemberRead
    <2> QED BY <2>1, <2>2, <2>3
  <1>11. {"dtype", "shape", "data_offsets"} \subseteq { h[i[1]][2] : i \in Inside(h, v) }
    <2>1. NamesOf(h, begin) = { h[i[1]][2] : i \in Inside(h, v) }
      BY <1>3 DEF NamesOf
    <2> QED BY <1>1, <2>1
  <1>12. TensorAt(h, s, w)
    BY <1>3, <1>4, <1>6, <1>7, <1>8, <1>10, <1>11, <1>s DEF TensorAt
  <1>13. IsTensor(h, s, w)
    BY <1>12, TensorAtIs
  <1>14. IsEntry(h, w, s, t)
    BY <1>4, <1>6, <1>9, <1>13, <1>s DEF IsEntry
  <1> QED BY <1>3, <1>14 DEF q, s, t, name, begin

-----------------------------------------------------------------------------
(* The entries that are read, and the pairs of the metadata.               *)

\* The entries up to a place, and the spans of those that declare the table's tensors.
Entries(h, w, to, table, e) ==
  /\ 2 < to /\ Level(h, 2, to) /\ Ascends(e, Len(table))
  /\ SpansOf(e) = { s \in Parts(h, 2, to) : h[s[1]][2] # "__metadata__" }
  /\ \A k \in 1 .. Len(table) : /\ IsTensor(h, e[k], w) /\ table[k] = Declared(h, e[k], w)
                                /\ HoldsElements(table[k]) /\ e[k][1] < to
  /\ \A s \in Parts(h, 2, to) : h[s[1]][2] = "__metadata__" => IsMetadata(h, s)

Up(h, w, to, table) == \E e : Entries(h, w, to, table, e)

Before(h, w, p, table) ==
  \/ p = 2 /\ table = <<>>
  \/ \E k \in Nat : p = k + 1 /\ h[k] = Comma /\ Up(h, w, k, table)

\* The first entry, and the next: the row to q is the row to k and a part.
NextEntry(h, w, p, q, row, table) ==
  /\ p \in Nat /\ p < q /\ Level(h, 2, q) /\ Parts(h, 2, q) = row \cup {<<p, q>>}
  /\ \/ p = 2 /\ table = <<>> /\ row = {}
     \/ \E k \in Nat : p = k + 1 /\ Up(h, w, k, table) /\ row = Parts(h, 2, k)

LEMMA NextEntryIs ==
  ASSUME NEW h, NEW w, NEW p \in Nat, NEW q, NEW table, Before(h, w, p, table), Item(h, p, q)
  PROVE  \E row : NextEntry(h, w, p, q, row, table)
  <1>0. q \in Nat /\ p < q /\ Level(h, p, q)
    BY DEF Item, Level
  <1>1. CASE p = 2 /\ table = <<>>
    <2>1. Parts(h, 2, q) = {<<p, q>>} /\ Level(h, 2, q)
      BY <1>0, <1>1, PartsOne
    <2>2. Parts(h, 2, q) = {} \cup {<<p, q>>}
      BY <2>1
    <2> QED BY <1>0, <1>1, <2>1, <2>2 DEF NextEntry
  <1>2. CASE \E k \in Nat : p = k + 1 /\ h[k] = Comma /\ Up(h, w, k, table)
    <2>1. PICK k \in Nat : p = k + 1 /\ h[k] = Comma /\ Up(h, w, k, table)
      BY <1>2
    <2>2. 2 < k /\ Level(h, 2, k)
      BY <2>1 DEF Up, Entries
    <2>3. MayAppend(h, 2, k, p, q)
      BY <2>1, <2>2 DEF MayAppend
    <2>4. Level(h, 2, q) /\ Parts(h, 2, q) = Parts(h, 2, k) \cup {<<p, q>>}
      BY <2>3, RowAppends DEF IsAppended
    <2> QED BY <1>0, <2>1, <2>4 DEF NextEntry
  <1> QED BY <1>1, <1>2 DEF Before

\* What a row says, the first one having no entries.
LEMMA RowSays ==
  ASSUME NEW h, NEW w, NEW p, NEW q, NEW row, NEW table, NextEntry(h, w, p, q, row, table)
  PROVE  \E e : /\ Ascends(e, Len(table)) /\ Len(table) \in Nat
                /\ SpansOf(e) = { s \in row : h[s[1]][2] # "__metadata__" }
                /\ \A k \in 1 .. Len(table) : /\ IsTensor(h, e[k], w) /\ table[k] = Declared(h, e[k], w)
                                              /\ HoldsElements(table[k]) /\ e[k][1] < p
                /\ \A s \in row : h[s[1]][2] = "__metadata__" => IsMetadata(h, s)
  <1>1. CASE p = 2 /\ table = <<>> /\ row = {}
    <2>1. Len(table) = 0 /\ 1 .. Len(table) = {}
      BY <1>1
    <2>2. Ascends(<<>>, Len(table)) /\ SpansOf(<<>>) = {}
      BY <2>1 DEF Ascends, SpansOf
    <2> QED BY <1>1, <2>1, <2>2
  <1>2. CASE \E k \in Nat : p = k + 1 /\ Up(h, w, k, table) /\ row = Parts(h, 2, k)
    <2>1. PICK k \in Nat : p = k + 1 /\ Up(h, w, k, table) /\ row = Parts(h, 2, k)
      BY <1>2
    <2>2. PICK e : Entries(h, w, k, table, e)
      BY <2>1 DEF Up
    <2>3. /\ Ascends(e, Len(table))
          /\ SpansOf(e) = { s \in row : h[s[1]][2] # "__metadata__" }
          /\ \A j \in 1 .. Len(table) : /\ IsTensor(h, e[j], w) /\ table[j] = Declared(h, e[j], w)
                                        /\ HoldsElements(table[j]) /\ e[j][1] < k
          /\ \A s \in row : h[s[1]][2] = "__metadata__" => IsMetadata(h, s)
      BY <2>1, <2>2 DEF Entries
    <2>4. Len(table) \in Nat /\ \A j \in 1 .. Len(table) : e[j][1] \in Int
      BY <2>3 DEF Ascends
    <2>5. \A j \in 1 .. Len(table) : e[j][1] < p
      BY <2>1, <2>3, <2>4
    <2> QED BY <2>3, <2>4, <2>5
  <1> QED BY <1>1, <1>2 DEF NextEntry

\* A metadata entry leaves the table as it is.
LEMMA MetadataAdds ==
  ASSUME NEW h, NEW w, NEW p \in Nat, NEW q, NEW table, Before(h, w, p, table), Item(h, p, q),
         IsMetadata(h, <<p, q>>)
  PROVE  Up(h, w, q, table)
  <1>1. PICK row : NextEntry(h, w, p, q, row, table)
    BY NextEntryIs
  <1>2. PICK e : /\ Ascends(e, Len(table)) /\ Len(table) \in Nat
                 /\ SpansOf(e) = { s \in row : h[s[1]][2] # "__metadata__" }
                 /\ \A k \in 1 .. Len(table) : /\ IsTensor(h, e[k], w) /\ table[k] = Declared(h, e[k], w)
                                               /\ HoldsElements(table[k]) /\ e[k][1] < p
                 /\ \A s \in row : h[s[1]][2] = "__metadata__" => IsMetadata(h, s)
    BY <1>1, RowSays
  <1>3. q \in Nat /\ p < q /\ Level(h, 2, q) /\ Parts(h, 2, q) = row \cup {<<p, q>>}
    BY <1>1 DEF NextEntry, Item, Level
  <1>4. 2 < q
    <2>1. p = 2 \/ \E k \in Nat : p = k + 1 /\ Up(h, w, k, table)
      BY <1>1 DEF NextEntry
    <2>2. ASSUME NEW k \in Nat, p = k + 1, Up(h, w, k, table) PROVE 2 < k
      BY <2>2 DEF Up, Entries
    <2> QED BY <1>3, <2>1, <2>2
  <1>5. h[<<p, q>>[1]][2] = "__metadata__"
    BY DEF IsMetadata
  <1>6. SpansOf(e) = { s \in Parts(h, 2, q) : h[s[1]][2] # "__metadata__" }
    BY <1>2, <1>3, <1>5
  <1>7. \A s \in Parts(h, 2, q) : h[s[1]][2] = "__metadata__" => IsMetadata(h, s)
    BY <1>2, <1>3
  <1>8. \A k \in 1 .. Len(table) : e[k][1] < q
    <2>1. \A k \in 1 .. Len(table) : e[k][1] \in Int
      BY <1>2 DEF Ascends
    <2> QED BY <1>2, <1>3, <2>1
  <1>9. Entries(h, w, q, table, e)
    BY <1>2, <1>3, <1>4, <1>6, <1>7, <1>8 DEF Entries
  <1> QED BY <1>9 DEF Up

\* A tensor's entry adds the tensor it declares.
LEMMA TensorAdds ==
  ASSUME NEW h, NEW w, NEW p \in Nat, NEW q, NEW table, SomeSeq(table), Before(h, w, p, table),
         NEW t, IsEntry(h, w, <<p, q>>, t)
  PROVE  Up(h, w, q, Append(table, t))
  <1>0. Item(h, p, q) /\ IsTensor(h, <<p, q>>, w) /\ t = Declared(h, <<p, q>>, w) /\ HoldsElements(t)
    BY DEF IsEntry
  <1>1. PICK row : NextEntry(h, w, p, q, row, table)
    BY <1>0, NextEntryIs
  <1>2. PICK e : /\ Ascends(e, Len(table)) /\ Len(table) \in Nat
                 /\ SpansOf(e) = { s \in row : h[s[1]][2] # "__metadata__" }
                 /\ \A k \in 1 .. Len(table) : /\ IsTensor(h, e[k], w) /\ table[k] = Declared(h, e[k], w)
                                               /\ HoldsElements(table[k]) /\ e[k][1] < p
                 /\ \A s \in row : h[s[1]][2] = "__metadata__" => IsMetadata(h, s)
    BY <1>1, RowSays
  <1>3. q \in Nat /\ p < q /\ Level(h, 2, q) /\ Parts(h, 2, q) = row \cup {<<p, q>>}
    BY <1>0, <1>1 DEF NextEntry, Item, Level
  <1>4. 2 < q
    <2>1. p = 2 \/ \E k \in Nat : p = k + 1 /\ Up(h, w, k, table)
      BY <1>1 DEF NextEntry
    <2>2. ASSUME NEW k \in Nat, p = k + 1, Up(h, w, k, table) PROVE 2 < k
      BY <2>2 DEF Up, Entries
    <2> QED BY <1>3, <2>1, <2>2
  <1>5. h[<<p, q>>[1]][2] # "__metadata__"
    BY <1>0 DEF IsTensor
  <1> DEFINE n == Len(table)
             added == Append(table, t)
             f == [k \in 1 .. n + 1 |-> IF k = n + 1 THEN <<p, q>> ELSE e[k]]
  <1>6. Len(added) = n + 1 /\ added[n + 1] = t /\ \A k \in 1 .. n : added[k] = table[k]
    BY AnyAppend
  <1>7. /\ n \in Nat /\ \A k \in 1 .. n : f[k] = e[k] /\ k # n + 1
        /\ f[n + 1] = <<p, q>> /\ DOMAIN f = 1 .. n + 1 /\ n + 1 \in 1 .. n + 1
        /\ \A k \in 1 .. n + 1 : k = n + 1 \/ k \in 1 .. n
    BY <1>2
  <1> HIDE DEF n, added, f
  <1>a. /\ Ascends(e, n) /\ DOMAIN e = 1 .. n
        /\ \A k \in 1 .. n : e[k][1] \in Int /\ e[k][1] < p
        /\ \A k, m \in 1 .. n : k < m => e[k][1] < e[m][1]
    BY <1>2 DEF Ascends, n
  <1>8. Ascends(f, n + 1)
    <2>1. n + 1 \in Nat /\ f[n + 1][1] = p
      BY <1>7
    <2>2. \A k \in 1 .. n + 1 : f[k][1] \in Int
      BY <1>7, <1>a, <2>1
    <2>3. ASSUME NEW k \in 1 .. n + 1, NEW m \in 1 .. n + 1, k < m PROVE f[k][1] < f[m][1]
      <3>1. k \in 1 .. n
        BY <1>7, <2>3
      <3>2. CASE m = n + 1
        BY <1>7, <1>a, <2>1, <3>1, <3>2
      <3>3. CASE m \in 1 .. n
        BY <1>7, <1>a, <2>3, <3>1, <3>3
      <3> QED BY <1>7, <3>2, <3>3
    <2> QED BY <1>7, <2>1, <2>2, <2>3 DEF Ascends
  <1>9. SpansOf(f) = SpansOf(e) \cup {<<p, q>>}
    BY <1>7, <1>a DEF SpansOf
  <1>10. SpansOf(f) = { s \in Parts(h, 2, q) : h[s[1]][2] # "__metadata__" }
    BY <1>2, <1>3, <1>5, <1>9
  <1>11. \A s \in Parts(h, 2, q) : h[s[1]][2] = "__metadata__" => IsMetadata(h, s)
    BY <1>2, <1>3, <1>5
  <1>12. \A k \in 1 .. n + 1 : /\ IsTensor(h, f[k], w) /\ added[k] = Declared(h, f[k], w)
                               /\ HoldsElements(added[k]) /\ f[k][1] < q
    <2> SUFFICES ASSUME NEW k \in 1 .. n + 1
                 PROVE  /\ IsTensor(h, f[k], w) /\ added[k] = Declared(h, f[k], w)
                        /\ HoldsElements(added[k]) /\ f[k][1] < q
      OBVIOUS
    <2>1. CASE k = n + 1
      <3>1. <<p, q>>[1] = p
        OBVIOUS
      <3> QED BY <1>0, <1>3, <1>6, <1>7, <2>1, <3>1
    <2>2. CASE k \in 1 .. n
      <3>1. f[k] = e[k] /\ added[k] = table[k] /\ e[k][1] < q
        BY <1>3, <1>6, <1>7, <1>a, <2>2
      <3> QED BY <1>2, <2>2, <3>1 DEF n
    <2> QED BY <1>7, <2>1, <2>2
  <1>13. Entries(h, w, q, added, f)
    BY <1>3, <1>4, <1>6, <1>8, <1>10, <1>11, <1>12 DEF Entries
  <1> QED BY <1>13 DEF Up, added

-----------------------------------------------------------------------------
(* Reading the header: what has been read at each stage.                   *)

OpensAt(h, p) == At(h, p, Brace)
CloseAt(h, p) == At(h, p, CloseOf(Brace))

\* The pairs of the metadata up to a place, and those before the next one.
PairsRow(h, i, to) ==
  /\ i < to /\ Level(h, i, to)
  /\ \A m \in Parts(h, i, to) : Keyed(h, m) /\ Single(h, ValueOf(m), "str")

PairsBefore(h, i, p) ==
  p = i \/ \E k \in Nat : p = k + 1 /\ h[k] = Comma /\ PairsRow(h, i, k)

\* Within the metadata that begins at p.
InMetadata(h, w, p, table) ==
  /\ p \in Nat /\ Before(h, w, p, table)
  /\ KeyAt(h, p) /\ h[p][2] = "__metadata__" /\ OpensAt(h, p + 2)

\* The table of a file that is accepted.
Accepted(w, table) ==
  WellFormed(w) /\ table = TableOf(w) /\ \A k \in DOMAIN table : HoldsElements(table[k])

\* What has been read of the header h of the file w when the reader has come to f.
HasRead(h, w, f) ==
  CASE f.stage \in {"opened", "header"} -> f.table = <<>>
    [] f.stage = "entry" -> OpensAt(h, 1) /\ f.at \in Nat /\ Before(h, w, f.at, f.table)
    [] f.stage = "pair" ->
         /\ OpensAt(h, 1) /\ f.at \in Nat
         /\ \E p : InMetadata(h, w, p, f.table) /\ PairsBefore(h, p + 3, f.at)
    [] f.stage = "pairs end" ->
         OpensAt(h, 1) /\ \E p : InMetadata(h, w, p, f.table) /\ PairsRow(h, p + 3, f.at)
    [] f.stage = "entries end" ->
         OpensAt(h, 1) /\ ((f.at = 2 /\ f.table = <<>>) \/ Up(h, w, f.at, f.table))
    [] f.stage = "returned" /\ f.rc = "OK" -> Accepted(w, f.table)
    [] OTHER -> TRUE

\* The invariant of a reading: the reader of the file w has come to f.
ReadingAt(w, f) ==
  /\ f.stage # "closed" => w \in Weights
  /\ f.stage \in Scanning => HasHeader(w)
  /\ HasRead(Header(w), w, f)

ReadingInv == ReadingAt(file, st)

\* A pair follows those before it.
LEMMA PairAdds ==
  ASSUME NEW h, NEW i \in Nat, NEW p \in Nat, PairsBefore(h, i, p), KeyAt(h, p), IsA(h, p + 2, "str")
  PROVE  PairsRow(h, i, p + 3)
  <1> DEFINE q == p + 3
  <1>0. p + 2 \in Nat /\ (p + 2) + 1 = q /\ q \in Nat /\ p < q
    OBVIOUS
  <1>1. Item(h, p + 2, q) /\ Single(h, <<p + 2, q>>, "str")
    BY <1>0, ItemOfScalar
  <1> HIDE DEF q
  <1>2. Item(h, p, q) /\ Keyed(h, <<p, q>>) /\ ValueOf(<<p, q>>) = <<p + 2, q>>
    BY <1>1, ItemOfKeyed
  <1>3. CASE p = i
    <2>1. Parts(h, i, q) = {<<p, q>>} /\ Level(h, i, q)
      BY <1>2, <1>3, PartsOne DEF Item
    <2> QED BY <1>0, <1>1, <1>2, <1>3, <2>1 DEF PairsRow, q
  <1>4. CASE \E k \in Nat : p = k + 1 /\ h[k] = Comma /\ PairsRow(h, i, k)
    <2>1. PICK k \in Nat : p = k + 1 /\ h[k] = Comma /\ PairsRow(h, i, k)
      BY <1>4
    <2>2. MayAppend(h, i, k, p, q)
      BY <1>2, <2>1 DEF MayAppend, PairsRow
    <2>3. Level(h, i, q) /\ Parts(h, i, q) = Parts(h, i, k) \cup {<<p, q>>}
      BY <2>2, RowAppends DEF IsAppended
    <2>4. i < q
      BY <1>0, <2>1 DEF PairsRow
    <2>5. \A m \in Parts(h, i, q) : Keyed(h, m) /\ Single(h, ValueOf(m), "str")
      BY <1>1, <1>2, <2>1, <2>3 DEF PairsRow
    <2>6. PairsRow(h, i, q)
      BY <2>3, <2>4, <2>5 DEF PairsRow
    <2> QED BY <2>6 DEF q
  <1> QED BY <1>3, <1>4 DEF PairsBefore

\* Where the reader goes after an entry or a pair.
LEMMA FollowingIs ==
  ASSUME NEW h, NEW p, NEW stage
  PROVE  Following(h, p, stage)
           = IF CommaAt(h, p) THEN [stage |-> stage, at |-> p + 1]
             ELSE [stage |-> IF stage = "pair" THEN "pairs end" ELSE "entries end", at |-> p]
  BY DEF Following, CommaAt

LEMMA CommaAtIs == ASSUME NEW h, NEW p, CommaAt(h, p) PROVE h[p] = Comma
  BY DEF CommaAt, At, Comma

LEMMA AfterEntry ==
  ASSUME NEW h, NEW w, NEW q, NEW table, Up(h, w, q, table), q \in Nat, NEW n, n = Following(h, q, "entry")
  PROVE  \/ n.stage = "entry" /\ n.at \in Nat /\ Before(h, w, n.at, table)
         \/ n.stage = "entries end" /\ Up(h, w, n.at, table)
  <1>1. CASE CommaAt(h, q)
    <2>1. n.stage = "entry" /\ n.at = q + 1
      BY <1>1, FollowingIs
    <2>2. h[q] = Comma
      BY <1>1, CommaAtIs
    <2>3. n.at \in Nat
      BY <2>1
    <2>4. \E k \in Nat : n.at = k + 1 /\ h[k] = Comma /\ Up(h, w, k, table)
      BY <2>1, <2>2
    <2> QED BY <2>1, <2>3, <2>4 DEF Before
  <1>2. CASE ~CommaAt(h, q)
    <2>1. n.stage = "entries end" /\ n.at = q
      BY <1>2, FollowingIs
    <2> QED BY <2>1
  <1> QED BY <1>1, <1>2

LEMMA AfterPair ==
  ASSUME NEW h, NEW i, NEW q, PairsRow(h, i, q), q \in Nat, NEW n, n = Following(h, q, "pair")
  PROVE  \/ n.stage = "pair" /\ n.at \in Nat /\ PairsBefore(h, i, n.at)
         \/ n.stage = "pairs end" /\ PairsRow(h, i, n.at)
  <1>1. CASE CommaAt(h, q)
    <2>1. n.stage = "pair" /\ n.at = q + 1
      BY <1>1, FollowingIs
    <2>2. h[q] = Comma
      BY <1>1, CommaAtIs
    <2>3. n.at \in Nat
      BY <2>1
    <2>4. \E k \in Nat : n.at = k + 1 /\ h[k] = Comma /\ PairsRow(h, i, k)
      BY <2>1, <2>2
    <2> QED BY <2>1, <2>3, <2>4 DEF PairsBefore
  <1>2. CASE ~CommaAt(h, q)
    <2>1. n.stage = "pairs end" /\ n.at = q
      BY <1>2, FollowingIs
    <2> QED BY <2>1
  <1> QED BY <1>1, <1>2

\* The metadata from its brace to the brace at e.
LEMMA MetadataEnds ==
  ASSUME NEW h, NEW w, NEW p, NEW table, InMetadata(h, w, p, table), NEW e, CloseAt(h, e),
         \/ e = p + 3
         \/ PairsRow(h, p + 3, e)
  PROVE  e + 1 \in Nat /\ Up(h, w, e + 1, table)
  <1>0. /\ p \in Nat /\ Before(h, w, p, table) /\ KeyAt(h, p) /\ h[p][2] = "__metadata__" /\ OpensAt(h, p + 2)
        /\ p + 2 \in Nat /\ p + 3 = (p + 2) + 1 /\ p + 3 \in Nat /\ Brace \in Kinds
    BY DEF InMetadata, Kinds
  <1>1. /\ Level(h, p + 3, e) /\ e \in Nat
        /\ \A m \in Parts(h, p + 3, e) : Keyed(h, m) /\ Single(h, ValueOf(m), "str")
    <2>1. CASE e = p + 3
      <3>1. Level(h, e, e) /\ Parts(h, e, e) = {} /\ e \in Nat
        BY <1>0, <2>1, LevelNone DEF Parts
      <3> QED BY <2>1, <3>1
    <2>2. CASE PairsRow(h, p + 3, e)
      BY <2>2 DEF PairsRow, Level
    <2> QED BY <2>1, <2>2
  <1> DEFINE q == e + 1
             v == <<p + 2, q>>
  <1>2. q \in Nat
    BY <1>1
  <1>3. /\ Item(h, p + 2, q) /\ Bracketed(h, v, Brace) /\ Inside(h, v) = Parts(h, p + 3, e)
    BY <1>0, <1>1, ItemOfObject DEF OpensAt, CloseAt
  <1> HIDE DEF q, v
  <1>4. Item(h, p, q) /\ Keyed(h, <<p, q>>) /\ ValueOf(<<p, q>>) = v
    BY <1>0, <1>3, ItemOfKeyed DEF v
  <1>5. h[<<p, q>>[1]][2] = "__metadata__"
    BY <1>0
  <1>6. \A m \in Inside(h, v) : Keyed(h, m) /\ Single(h, ValueOf(m), "str")
    BY <1>1, <1>3
  <1>7. Bracketed(h, v, "{")
    BY <1>3 DEF Brace
  <1>8. IsMetadata(h, <<p, q>>)
    BY <1>4, <1>5, <1>6, <1>7, Zenon DEF IsMetadata
  <1>9. Up(h, w, q, table)
    BY <1>0, <1>4, <1>8, MetadataAdds
  <1> QED BY <1>2, <1>9 DEF q

\* A reading that failed has nothing to say.
Failed(f) == f.stage = "returned" /\ f.rc # "OK"

LEMMA GivingUpFails ==
  ASSUME NEW f, NEW got, NEW text, NEW rc, GiveUp(f, got, text, rc), rc # "OK"
  PROVE  Failed(st')
  BY DEF GiveUp, Failed, ClosedFile

LEMMA FailedReading ==
  ASSUME NEW w \in Weights, NEW f, Failed(f)
  PROVE  ReadingAt(w, f)
  <1>1. f.stage = "returned" /\ f.rc # "OK" /\ f.stage \notin Scanning
    BY DEF Failed, Scanning
  <1>2. HasRead(Header(w), w, f)
    BY <1>1 DEF HasRead
  <1> QED BY <1>1, <1>2 DEF ReadingAt

LEMMA GotoAt ==
  ASSUME NEW f, DOMAIN f = Fields, NEW next
  PROVE  LET g == Goto(f, next) IN
         g.stage = next.stage /\ g.at = next.at /\ g.table = f.table /\ g.rc = f.rc /\ DOMAIN g = Fields
  BY DEF Goto, Fields

\* The stages at which an entry may end.
LEMMA ReadsOnEntry ==
  ASSUME NEW w, HasHeader(w), NEW f, NEW h, h = Header(w), OpensAt(h, 1), NEW q \in Nat,
         Up(h, w, q, f.table), f.stage = Following(h, q, "entry").stage, f.at = Following(h, q, "entry").at
  PROVE  ReadingAt(w, f)
  <1>1. PICK n : n = Following(h, q, "entry")
    OBVIOUS
  <1>2. \/ n.stage = "entry" /\ n.at \in Nat /\ Before(h, w, n.at, f.table)
        \/ n.stage = "entries end" /\ Up(h, w, n.at, f.table)
    BY <1>1, AfterEntry
  <1>3. f.stage = n.stage /\ f.at = n.at
    BY <1>1
  <1>4. HasRead(h, w, f)
    BY <1>2, <1>3 DEF HasRead
  <1> QED BY <1>4 DEF ReadingAt, HasHeader

LEMMA FopenReads == ASSUME file \in Weights, StFopen PROVE ReadingAt(file, st')
  <1>1. CASE \E rc \in {"OPEN", "NOMEM"} :
               st' = [ClosedFile EXCEPT !.stage = "returned", !.rc = rc] /\ Heap({}, {})
    <2>1. Failed(st')
      BY <1>1 DEF Failed, ClosedFile
    <2> QED BY <2>1, FailedReading
  <1>2. CASE st' = [ClosedFile EXCEPT !.stage = "opened"] /\ Heap(Held(ClosedFile), {})
    <2>1. st'.stage = "opened" /\ st'.table = <<>> /\ st'.stage \notin Scanning
      BY <1>2 DEF ClosedFile, Scanning
    <2>2. HasRead(Header(file), file, st')
      BY <2>1 DEF HasRead
    <2> QED BY <2>1, <2>2 DEF ReadingAt
  <1> QED BY <1>1, <1>2 DEF StFopen

LEMMA ReadHeaderReads ==
  ASSUME IsStFile(st), ReadingAt(file, st), ReadHeader
  PROVE  ReadingAt(file, st')
  <1>1. st.stage = "opened" /\ file \in Weights /\ st.table = <<>>
    BY DEF ReadHeader, ReadingAt, HasRead
  <1>2. PICK rc \in HeaderOutcomes(file) :
          IF rc = "OK" THEN st' = [st EXCEPT !.stage = "header"] /\ Heap(HeaderText, {})
          ELSE GiveUp(st, {}, {}, rc)
    BY DEF ReadHeader
  <1>3. CASE rc = "OK"
    <2>1. st' = [st EXCEPT !.stage = "header"] /\ "OK" \in HeaderOutcomes(file)
      BY <1>2, <1>3
    <2>2. st'.stage = "header" /\ st'.table = <<>>
      BY <1>1, <2>1 DEF IsStFile, Fields
    <2>3. ~(file.tiny \/ file.prefix > Len(file.cells))
      BY <2>1 DEF HeaderOutcomes
    <2>4. HasHeader(file)
      <3> DEFINE S == { file.cells[k] : k \in DOMAIN file.cells }
      <3>0. file.cells \in Seq(S) /\ file.prefix \in Nat
        BY <1>1, ReaderAssumption
      <3> HIDE DEF S
      <3>1. Len(file.cells) \in Nat /\ file.prefix \in Nat
        BY <3>0
      <3> QED BY <1>1, <2>3, <3>1 DEF HasHeader
    <2>5. HasRead(Header(file), file, st')
      BY <2>2 DEF HasRead
    <2> QED BY <1>1, <2>4, <2>5 DEF ReadingAt
  <1>4. CASE rc # "OK"
    BY <1>1, <1>2, <1>4, GivingUpFails, FailedReading
  <1> QED BY <1>3, <1>4

LEMMA BeginReads ==
  ASSUME IsStFile(st), ReadingAt(file, st), BeginHeader
  PROVE  ReadingAt(file, st')
  <1> DEFINE h == Header(file)
             next == [stage |-> IF CloseAt(h, 2) THEN "entries end" ELSE "entry", at |-> 2]
  <1>1. st.stage = "header" /\ HasHeader(file) /\ st.table = <<>> /\ file \in Weights
    BY DEF BeginHeader, ReadingAt, HasRead, Scanning
  <1>2. \/ GiveUp(st, {}, HeaderText, "BAD_JSON")
        \/ OpensAt(h, 1) /\ st' = Goto(st, next)
    BY DEF BeginHeader, OpensAt, CloseAt, Brace, CloseOf
  <1> HIDE DEF h
  <1>3. CASE GiveUp(st, {}, HeaderText, "BAD_JSON")
    BY <1>1, <1>3, GivingUpFails, FailedReading
  <1>4. CASE OpensAt(h, 1) /\ st' = Goto(st, next)
    <2>1. next.stage \in {"entry", "entries end"} /\ next.at = 2
      OBVIOUS
    <2> HIDE DEF next
    <2>2. st'.stage = next.stage /\ st'.at = 2 /\ st'.table = <<>>
      BY <1>1, <1>4, <2>1, GotoAt DEF IsStFile
    <2>3. Before(h, file, st'.at, st'.table)
      BY <2>2 DEF Before
    <2>4. st'.at \in Nat /\ OpensAt(h, 1)
      BY <1>4, <2>2
    <2>5. HasRead(h, file, st')
      <3>1. CASE next.stage = "entry"
        BY <2>2, <2>3, <2>4, <3>1 DEF HasRead
      <3>2. CASE next.stage = "entries end"
        BY <2>2, <2>4, <3>2 DEF HasRead
      <3> QED BY <2>1, <3>1, <3>2
    <2> QED BY <1>1, <2>5 DEF ReadingAt, h
  <1> QED BY <1>2, <1>3, <1>4

LEMMA TensorReads ==
  ASSUME IsStFile(st), ReadingAt(file, st), st.stage = "entry", NEW mem, NEW h, h = Header(file),
         ReadTensor(h, mem), KeyAt(h, st.at), h[st.at][2] # "__metadata__"
  PROVE  ReadingAt(file, st')
  <1> DEFINE name    == h[st.at][2]
             members == Members(h, st.at + 2, EntryMembers(h))
             rc      == TensorStatus(h, members, name, file)
             t       == Tensor(h, name, members.begin, file)
             next    == Following(h, members.at, "entry")
             g       == [st EXCEPT !.cap = Grown(@, Len(st.table) + 1)]
             got     == Held(g) \ Held(st)
             n       == [Goto(g, next) EXCEPT !.table = Append(@, t)]
  <1>1. \/ GiveUp(st, {}, HeaderText, "NOMEM")
        \/ rc # "OK" /\ GiveUp(g, got, HeaderText, rc)
        \/ rc = "OK" /\ st' = n
    BY DEF ReadTensor, EntryMembers
  <1>2. /\ HasHeader(file) /\ file \in Weights /\ OpensAt(h, 1) /\ st.at \in Nat
        /\ Before(h, file, st.at, st.table)
    BY DEF ReadingAt, HasRead, Scanning
  <1>3. DOMAIN g = Fields /\ g.table = st.table
    BY DEF IsStFile, Fields
  <1> HIDE DEF rc, t, next, g, got, members, name
  <1>4. CASE GiveUp(st, {}, HeaderText, "NOMEM")
    BY <1>2, <1>4, GivingUpFails, FailedReading
  <1>5. CASE rc # "OK" /\ GiveUp(g, got, HeaderText, rc)
    BY <1>2, <1>5, GivingUpFails, FailedReading
  <1>6. CASE rc = "OK" /\ st' = n
    <2> DEFINE f == Goto(g, next)
    <2>1. f.stage = next.stage /\ f.at = next.at /\ f.table = st.table /\ DOMAIN f = Fields
      BY <1>3, GotoAt
    <2>2. n = [f EXCEPT !.table = Append(@, t)]
      OBVIOUS
    <2> HIDE DEF f, n
    <2>3. st'.stage = next.stage /\ st'.at = next.at /\ st'.table = Append(st.table, t)
      BY <1>6, <2>1, <2>2 DEF Fields
    <2> DEFINE p == st.at
               q == members.at
    <2>4. q \in Nat /\ IsEntry(h, file, <<p, q>>, t)
      <3>1. TensorStatus(h, members, h[p][2], file) = "OK" /\ members = Members(h, p + 2, EntryMembers(h))
        BY <1>6 DEF rc, name, members
      <3>2. t = Tensor(h, h[p][2], members.begin, file)
        BY DEF t, name
      <3>3. p \in Nat /\ KeyAt(h, p) /\ h[p][2] # "__metadata__"
        BY <1>2
      <3> HIDE DEF p
      <3> QED BY <1>2, <3>1, <3>2, <3>3, EntryRead
    <2>5. SomeSeq(st.table)
      BY DEF IsStFile
    <2>6. Up(h, file, q, Append(st.table, t))
      <3> HIDE DEF q, p
      <3>1. p \in Nat /\ Before(h, file, p, st.table)
        BY <1>2 DEF p
      <3> QED BY <2>4, <2>5, <3>1, TensorAdds
    <2>7. next = Following(h, q, "entry")
      BY DEF next
    <2> HIDE DEF q, p
    <2> QED BY <1>2, <2>3, <2>4, <2>6, <2>7, ReadsOnEntry
  <1> QED BY <1>1, <1>4, <1>5, <1>6

LEMMA EntryReads ==
  ASSUME IsStFile(st), ReadingAt(file, st), NEW mem \in BOOLEAN, ReadEntry(mem)
  PROVE  ReadingAt(file, st')
  <1> DEFINE h == Header(file)
             p == st.at
             next == IF CloseAt(h, p + 3) THEN Following(h, p + 4, "entry")
                     ELSE [stage |-> "pair", at |-> p + 3]
             n == [Goto(st, next) EXCEPT !.hasMeta = TRUE, !.metaCap = 0]
  <1>1. /\ st.stage = "entry" /\ HasHeader(file) /\ file \in Weights /\ OpensAt(h, 1) /\ p \in Nat
        /\ Before(h, file, p, st.table)
    BY DEF ReadEntry, ReadingAt, HasRead, Scanning
  <1>2. \/ GiveUp(st, {}, HeaderText, "BAD_JSON")
        \/ KeyAt(h, p) /\ h[p][2] # "__metadata__" /\ ReadTensor(h, mem)
        \/ KeyAt(h, p) /\ h[p][2] = "__metadata__" /\ OpensAt(h, p + 2) /\ st' = n
    BY DEF ReadEntry, OpensAt, CloseAt, Brace, CloseOf
  <1> HIDE DEF next
  <1>3. CASE GiveUp(st, {}, HeaderText, "BAD_JSON")
    BY <1>1, <1>3, GivingUpFails, FailedReading
  <1>4. CASE KeyAt(h, p) /\ h[p][2] # "__metadata__" /\ ReadTensor(h, mem)
    BY <1>1, <1>4, TensorReads
  <1>5. CASE KeyAt(h, p) /\ h[p][2] = "__metadata__" /\ OpensAt(h, p + 2) /\ st' = n
    <2> HIDE DEF h
    <2>1. st'.stage = next.stage /\ st'.at = next.at /\ st'.table = st.table
      <3> DEFINE f == Goto(st, next)
      <3>1. f.stage = next.stage /\ f.at = next.at /\ f.table = st.table /\ DOMAIN f = Fields
        BY GotoAt DEF IsStFile
      <3>2. st' = [f EXCEPT !.hasMeta = TRUE, !.metaCap = 0]
        BY <1>5
      <3> HIDE DEF f
      <3> QED BY <3>1, <3>2 DEF Fields
    <2>2. InMetadata(h, file, p, st.table)
      BY <1>1, <1>5 DEF InMetadata
    <2>3. CASE CloseAt(h, p + 3)
      <3>1. next = Following(h, p + 4, "entry")
        BY <2>3 DEF next
      <3>2. PICK e : e = p + 3 /\ e + 1 = p + 4
        BY <1>1
      <3>3. e + 1 \in Nat /\ Up(h, file, e + 1, st.table)
        BY <2>2, <2>3, <3>2, MetadataEnds
      <3>4. PICK q : q = p + 4
        OBVIOUS
      <3>5. q \in Nat /\ Up(h, file, q, st'.table)
        BY <2>1, <3>2, <3>3, <3>4
      <3>6. st'.stage = Following(h, q, "entry").stage /\ st'.at = Following(h, q, "entry").at
        BY <2>1, <3>1, <3>4
      <3> QED BY <1>1, <3>5, <3>6, ReadsOnEntry DEF h
    <2>4. CASE ~CloseAt(h, p + 3)
      <3>1. st'.stage = "pair" /\ st'.at = p + 3 /\ st'.at \in Nat
        BY <1>1, <2>1, <2>4 DEF next
      <3>2. PairsBefore(h, p + 3, st'.at)
        BY <3>1 DEF PairsBefore
      <3>3. HasRead(h, file, st')
        BY <1>1, <2>1, <2>2, <3>1, <3>2 DEF HasRead
      <3> QED BY <1>1, <3>3 DEF ReadingAt, h
    <2> QED BY <2>3, <2>4
  <1> QED BY <1>2, <1>3, <1>4, <1>5

LEMMA PairReads ==
  ASSUME IsStFile(st), ReadingAt(file, st), NEW mem, ReadPair(mem)
  PROVE  ReadingAt(file, st')
  <1> DEFINE h     == Header(file)
             q     == st.at + 3
             g     == [st EXCEPT !.metaCap = Grown(@, Len(st.meta) + 1)]
             pair  == <<h[st.at][2], h[st.at + 2][2]>>
             added == [g EXCEPT !.meta = Append(@, pair)]
             next  == Following(h, q, "pair")
  <1>1. st.stage = "pair" /\ HasHeader(file) /\ file \in Weights /\ OpensAt(h, 1) /\ st.at \in Nat
    BY DEF ReadPair, ReadingAt, HasRead, Scanning
  <1>2. PICK p : InMetadata(h, file, p, st.table) /\ PairsBefore(h, p + 3, st.at)
    BY <1>1 DEF ReadingAt, HasRead
  <1>3. \/ GiveUp(st, {}, HeaderText, "BAD_JSON")
        \/ GiveUp(st, {}, HeaderText, "NOMEM")
        \/ GiveUp(g, Held(g) \ Held(st), HeaderText, "NOMEM")
        \/ KeyAt(h, st.at) /\ IsA(h, st.at + 2, "str") /\ st' = Goto(added, next)
    BY DEF ReadPair
  <1>4. DOMAIN added = Fields /\ added.table = st.table
    BY DEF IsStFile, Fields
  <1> HIDE DEF h, next, added, g
  <1>5. CASE GiveUp(st, {}, HeaderText, "BAD_JSON") \/ GiveUp(st, {}, HeaderText, "NOMEM")
    BY <1>1, <1>5, GivingUpFails, FailedReading
  <1>6. CASE GiveUp(g, Held(g) \ Held(st), HeaderText, "NOMEM")
    BY <1>1, <1>6, GivingUpFails, FailedReading
  <1>7. CASE KeyAt(h, st.at) /\ IsA(h, st.at + 2, "str") /\ st' = Goto(added, next)
    <2>1. st'.stage = next.stage /\ st'.at = next.at /\ st'.table = st.table
      BY <1>4, <1>7, GotoAt
    <2>2. p + 3 \in Nat
      BY <1>2 DEF InMetadata
    <2>3. PICK i : i = p + 3 /\ i \in Nat
      BY <2>2
    <2>4. q \in Nat /\ PairsRow(h, i, q)
      <3>1. PairsBefore(h, i, st.at) /\ q \in Nat
        BY <1>1, <1>2, <2>3
      <3> QED BY <1>1, <1>7, <2>3, <3>1, PairAdds
    <2> HIDE DEF q
    <2>5. \/ next.stage = "pair" /\ next.at \in Nat /\ PairsBefore(h, i, next.at)
          \/ next.stage = "pairs end" /\ PairsRow(h, i, next.at)
      BY <2>4, AfterPair DEF next
    <2>6. \E p0 : InMetadata(h, file, p0, st'.table)
                  /\ (\/ next.stage = "pair" /\ next.at \in Nat /\ PairsBefore(h, p0 + 3, st'.at)
                      \/ next.stage = "pairs end" /\ PairsRow(h, p0 + 3, st'.at))
      BY <1>2, <2>1, <2>3, <2>5
    <2>7. HasRead(h, file, st')
      BY <1>1, <2>1, <2>6 DEF HasRead
    <2> QED BY <1>1, <2>7 DEF ReadingAt, h
  <1> QED BY <1>3, <1>5, <1>6, <1>7

LEMMA EndPairsReads ==
  ASSUME IsStFile(st), ReadingAt(file, st), EndPairs
  PROVE  ReadingAt(file, st')
  <1> DEFINE h == Header(file)
             next == Following(h, st.at + 1, "entry")
  <1>1. st.stage = "pairs end" /\ HasHeader(file) /\ file \in Weights /\ OpensAt(h, 1)
    BY DEF EndPairs, ReadingAt, HasRead, Scanning
  <1>2. PICK p : InMetadata(h, file, p, st.table) /\ PairsRow(h, p + 3, st.at)
    BY <1>1 DEF ReadingAt, HasRead
  <1>3. \/ GiveUp(st, {}, HeaderText, "BAD_JSON")
        \/ CloseAt(h, st.at) /\ st' = Goto(st, next)
    BY DEF EndPairs, CloseAt, CloseOf, Brace
  <1> HIDE DEF h
  <1>4. CASE GiveUp(st, {}, HeaderText, "BAD_JSON")
    BY <1>1, <1>4, GivingUpFails, FailedReading
  <1>5. CASE CloseAt(h, st.at) /\ st' = Goto(st, next)
    <2>1. st'.stage = next.stage /\ st'.at = next.at /\ st'.table = st.table
      <3> HIDE DEF next
      <3> QED BY <1>5, GotoAt DEF IsStFile
    <2>2. st.at + 1 \in Nat /\ Up(h, file, st.at + 1, st.table)
      BY <1>2, <1>5, MetadataEnds
    <2>3. PICK q : q = st.at + 1
      OBVIOUS
    <2>4. /\ q \in Nat /\ Up(h, file, q, st'.table)
          /\ st'.stage = Following(h, q, "entry").stage /\ st'.at = Following(h, q, "entry").at
      BY <2>1, <2>2, <2>3
    <2> QED BY <1>1, <2>4, ReadsOnEntry DEF h
  <1> QED BY <1>3, <1>4, <1>5

\* The header that ends where its last brace is.
LEMMA HeaderEnds ==
  ASSUME NEW w, HasHeader(w), NEW h, h = Header(w), NEW table, SomeSeq(table), OpensAt(h, 1),
         NEW q, q = Len(h), CloseAt(h, q), (q = 2 /\ table = <<>>) \/ Up(h, w, q, table)
  PROVE  Accepted(w, table)
  <1> DEFINE n == Len(table)
             all == <<1, q + 1>>
             named == { s \in Parts(h, 2, q) : h[s[1]][2] # "__metadata__" }
  <1>0. DOMAIN table = 1 .. n /\ n \in Nat /\ Len(h) \in Nat
    BY AnyAppend, HeaderIs DEF IsHeader, IsText
  <1>1. PICK e : /\ Ascends(e, n) /\ SpansOf(e) = named /\ 2 <= q /\ q \in Nat /\ Level(h, 2, q)
                 /\ \A k \in 1 .. n : /\ IsTensor(h, e[k], w) /\ table[k] = Declared(h, e[k], w)
                                      /\ HoldsElements(table[k])
                 /\ \A s \in Parts(h, 2, q) : h[s[1]][2] = "__metadata__" => IsMetadata(h, s)
    <2>1. CASE q = 2 /\ table = <<>>
      <3>1. n = 0 /\ 1 .. n = {} /\ Parts(h, 2, q) = {} /\ Level(h, 2, q) /\ q \in Nat /\ 2 <= q
        BY <2>1, LevelNone DEF Parts
      <3>2. Ascends(<<>>, n) /\ SpansOf(<<>>) = {}
        BY <3>1 DEF Ascends, SpansOf
      <3> QED BY <3>1, <3>2
    <2>2. CASE Up(h, w, q, table)
      <3>1. PICK e : Entries(h, w, q, table, e)
        BY <2>2 DEF Up
      <3>2. 2 < q /\ Level(h, 2, q)
        BY <3>1 DEF Entries
      <3>3. q \in Nat /\ 2 <= q
        BY <3>2 DEF Level
      <3> QED BY <3>1, <3>2, <3>3 DEF Entries
    <2> QED BY <2>1, <2>2
  <1>2. /\ Bracketed(h, all, Brace) /\ Inside(h, all) = Parts(h, 2, q)
    <2>1. 1 \in Nat /\ 2 = 1 + 1 /\ Brace \in Kinds
      BY DEF Kinds
    <2> QED BY <1>1, <2>1, ItemOfObject DEF OpensAt, CloseAt
  <1>3. all = <<1, Len(h) + 1>>
    OBVIOUS
  <1> HIDE DEF all, n
  <1>4. InOrder(named) = [k \in 1 .. n |-> e[k]]
    BY <1>1, AscendingInOrder, ZenonT(40)
  <1>5. table = TableOf(w)
    <2> DEFINE tensors == [k \in 1 .. n |-> e[k]]
    <2>1. TableOf(w) = [k \in DOMAIN tensors |-> Declared(h, tensors[k], w)]
      BY <1>2, <1>3, <1>4, ZenonT(40) DEF TableOf
    <2>2. TableOf(w) = [k \in 1 .. n |-> Declared(h, e[k], w)]
      BY <2>1
    <2>3. table = [k \in 1 .. n |-> table[k]]
      <3>1. PICK S : table \in Seq(S)
        BY DEF SomeSeq
      <3> QED BY <1>0, <3>1
    <2> QED BY <1>1, <2>2, <2>3
  <1>6. \A s \in Inside(h, all) : IsMetadata(h, s) \/ IsTensor(h, s, w)
    <2> SUFFICES ASSUME NEW s \in Parts(h, 2, q) PROVE IsMetadata(h, s) \/ IsTensor(h, s, w)
      BY <1>2
    <2>1. CASE h[s[1]][2] = "__metadata__"
      BY <1>1, <2>1
    <2>2. CASE h[s[1]][2] # "__metadata__"
      <3>1. s \in SpansOf(e)
        BY <1>1, <2>2
      <3>2. PICK k \in 1 .. n : s = e[k]
        BY <1>1, <3>1 DEF SpansOf, Ascends
      <3> QED BY <1>1, <3>2
    <2> QED BY <2>1, <2>2
  <1>7. WellFormed(w)
    <2>1. ~w.tiny /\ w.prefix <= Len(w.cells)
      BY DEF HasHeader
    <2>2. Bracketed(Header(w), <<1, Len(Header(w)) + 1>>, "{")
      BY <1>2, <1>3, Zenon DEF Brace
    <2>3. \A s \in Inside(Header(w), <<1, Len(Header(w)) + 1>>) :
            IsMetadata(Header(w), s) \/ IsTensor(Header(w), s, w)
      BY <1>3, <1>6
    <2> QED BY <2>1, <2>2, <2>3, Zenon DEF WellFormed
  <1> QED BY <1>0, <1>1, <1>5, <1>7 DEF Accepted

LEMMA EndEntriesReads ==
  ASSUME IsStFile(st), ReadingAt(file, st), EndEntries
  PROVE  ReadingAt(file, st')
  <1> DEFINE h == Header(file)
  <1>1. /\ st.stage = "entries end" /\ HasHeader(file) /\ file \in Weights /\ OpensAt(h, 1)
        /\ (st.at = 2 /\ st.table = <<>>) \/ Up(h, file, st.at, st.table)
    BY DEF EndEntries, ReadingAt, HasRead, Scanning
  <1>2. \/ GiveUp(st, {}, HeaderText, "BAD_JSON")
        \/ CloseAt(h, st.at) /\ st.at = Len(h) /\ st' = [st EXCEPT !.stage = "returned"]
    BY DEF EndEntries, CloseAt, CloseOf, Brace
  <1> HIDE DEF h
  <1>3. CASE GiveUp(st, {}, HeaderText, "BAD_JSON")
    BY <1>1, <1>3, GivingUpFails, FailedReading
  <1>4. CASE CloseAt(h, st.at) /\ st.at = Len(h) /\ st' = [st EXCEPT !.stage = "returned"]
    <2>1. st'.stage = "returned" /\ st'.table = st.table /\ st'.stage \notin Scanning
      BY <1>4 DEF IsStFile, Fields, Scanning
    <2>2. Accepted(file, st'.table)
      BY <1>1, <1>4, <2>1, HeaderEnds DEF IsStFile, h
    <2>3. HasRead(Header(file), file, st')
      BY <2>1, <2>2 DEF HasRead
    <2> QED BY <1>1, <2>1, <2>3 DEF ReadingAt
  <1> QED BY <1>2, <1>3, <1>4

\* A step of st_open keeps what has been read.
LEMMA StOpenReads ==
  ASSUME IsStFile(st), st.stage # "closed", ReadingInv, StOpen
  PROVE  ReadingInv'
  <1>1. ReadingAt(file, st) /\ file \in Weights
    BY DEF ReadingInv, ReadingAt
  <1>2. CASE StFopen
    BY <1>1, <1>2, FopenReads DEF ReadingInv, StFopen
  <1>3. CASE ReadHeader
    BY <1>1, <1>3, ReadHeaderReads DEF ReadingInv, ReadHeader
  <1>4. CASE BeginHeader
    BY <1>1, <1>4, BeginReads DEF ReadingInv, BeginHeader
  <1>5. CASE \E mem \in BOOLEAN : ReadEntry(mem)
    <2>1. PICK mem \in BOOLEAN : ReadEntry(mem)
      BY <1>5
    <2>2. ReadingAt(file, st') /\ file' = file
      BY <1>1, <2>1, EntryReads DEF ReadEntry
    <2> QED BY <2>2 DEF ReadingInv
  <1>6. CASE \E mem \in {"nothing", "array", "all"} : ReadPair(mem)
    <2>1. PICK mem \in {"nothing", "array", "all"} : ReadPair(mem)
      BY <1>6
    <2>2. ReadingAt(file, st') /\ file' = file
      BY <1>1, <2>1, PairReads DEF ReadPair
    <2> QED BY <2>2 DEF ReadingInv
  <1>7. CASE EndPairs
    BY <1>1, <1>7, EndPairsReads DEF ReadingInv, EndPairs
  <1>8. CASE EndEntries
    BY <1>1, <1>8, EndEntriesReads DEF ReadingInv, EndEntries
  <1> QED BY <1>2, <1>3, <1>4, <1>5, <1>6, <1>7, <1>8 DEF StOpen

\* A file that is closed, or about to be opened.
LEMMA ClosedReading ==
  ASSUME NEW w
  PROVE  /\ ReadingAt(w, ClosedFile)
         /\ w \in Weights => ReadingAt(w, [ClosedFile EXCEPT !.stage = "called"])
  <1>1. ASSUME NEW f, f.stage \in {"closed", "called"} PROVE HasRead(Header(w), w, f) /\ f.stage \notin Scanning
    BY <1>1 DEF HasRead, Scanning
  <1> DEFINE called == [ClosedFile EXCEPT !.stage = "called"]
  <1>2. ClosedFile.stage = "closed" /\ called.stage = "called"
    BY DEF ClosedFile
  <1>3. ASSUME NEW f, f.stage \in {"closed", "called"}, f.stage = "closed" \/ w \in Weights PROVE ReadingAt(w, f)
    BY <1>1, <1>3 DEF ReadingAt
  <1> HIDE DEF called
  <1>4. ReadingAt(w, ClosedFile) /\ (w \in Weights => ReadingAt(w, called))
    BY <1>2, <1>3
  <1> QED BY <1>4 DEF called

LEMMA ReadingNext == ASSUME LoadInv, ReadingInv, [LoadNext]_vars PROVE ReadingInv'
  <1>1. ASSUME UNCHANGED <<file, st>> PROVE ReadingInv'
    BY <1>1 DEF ReadingInv
  <1>2. ASSUME st' = ClosedFile PROVE ReadingInv'
    BY <1>2, ClosedReading DEF ReadingInv
  <1>3. ASSUME NEW w \in Weights, CallStOpen(w) PROVE ReadingInv'
    BY <1>3, ClosedReading DEF ReadingInv, CallStOpen
  <1>4. session.tool.weights \in Weights /\ session.load.weights \in Weights
    BY SessionAssumption DEF LoadInv, ModelInv
  <1>5. CASE StOpen
    <2>1. IsStFile(st) /\ st.stage # "closed"
      <3>1. st.stage \in {"called", "opened"} \cup Scanning
        BY <1>5, StOpenMoves DEF LoadInv, FileInv
      <3> QED BY <3>1 DEF LoadInv, FileInv, Scanning
    <2> QED BY <1>5, <2>1, StOpenReads
  <1>6. CASE CallTool
    BY <1>3, <1>4, <1>6 DEF CallTool
  <1>7. CASE ToolOpened \/ (\E readable \in BOOLEAN : ToolConfig(readable)) \/ ToolCannotWrite
             \/ (\E n \in -1 .. Len(st.table) : ToolWrite(n))
    BY <1>1, <1>2, <1>7 DEF ToolOpened, ToolConfig, ToolCannotWrite, ToolWrite, ToolExit
  <1>8. CASE CallLoad \/ LoadReturns \/ ModelFree
    BY <1>1, <1>2, <1>8 DEF CallLoad, LoadReturns, ModelFree
  <1>9. CASE CheckConfig
    BY <1>2, <1>3, <1>4, <1>9 DEF CheckConfig, Fail
  <1>10. CASE WeightsOpened
    BY <1>1, <1>2, <1>10 DEF WeightsOpened, Fail
  <1>11. CASE \E records, layers \in BOOLEAN : AllocTables(records, layers)
    <2>1. PICK records \in BOOLEAN, layers \in BOOLEAN : AllocTables(records, layers)
      BY <1>11
    <2>2. st' = ClosedFile \/ UNCHANGED <<file, st>>
      BY <2>1 DEF AllocTables, Fail
    <2> QED BY <1>1, <1>2, <2>2
  <1>12. CASE \E mem, ok \in BOOLEAN : LoadTensor(mem, ok)
    <2>1. PICK mem \in BOOLEAN, ok \in BOOLEAN : LoadTensor(mem, ok)
      BY <1>12
    <2>2. st' = ClosedFile \/ UNCHANGED <<file, st>>
      BY <2>1 DEF LoadTensor, Fail
    <2> QED BY <1>1, <1>2, <2>2
  <1>13. CASE UNCHANGED vars
    BY <1>1, <1>13 DEF vars, readerVars
  <1> QED BY <1>5, <1>6, <1>7, <1>8, <1>9, <1>10, <1>11, <1>12, <1>13 DEF LoadNext

(* At each of its stages st_open has read entries, and pairs of metadata,  *)
(* that are parts of the header, and its table is what those declare.      *)
THEOREM ReadingInductive == LoadSpec => [](LoadInv /\ ReadingInv)
  <1>1. LoadInit => ReadingInv
    BY ClosedReading DEF LoadInit, ReadingInv
  <1>2. LoadInv /\ ReadingInv /\ [LoadNext]_vars => ReadingInv'
    BY ReadingNext
  <1> QED BY <1>1, <1>2, LoadInductive, PTL DEF LoadSpec

LEMMA ReadingFollows == ASSUME ReadingInv PROVE TableIsHeader
  <1> SUFFICES ASSUME st.stage = "returned", st.rc = "OK" PROVE WellFormed(file) /\ st.table = TableOf(file)
    BY DEF TableIsHeader
  <1> QED BY DEF ReadingInv, ReadingAt, HasRead, Accepted

(* st_open accepts no header that the grammar does not, and the table it   *)
(* fills is the one that the header declares.                              *)
THEOREM TablesAreHeaders == LoadSpec => []TableIsHeader
  <1>1. LoadInv /\ ReadingInv => TableIsHeader
    BY ReadingFollows
  <1> QED BY <1>1, ReadingInductive, PTL
-----------------------------------------------------------------------------
(* What was read, written and compared.                                    *)

\* An inventory that was begun lists the first tensors the tool's file declares, and a
\* whole one lists them all.
ListsFile(i, whole, old, c) ==
  \/ i = NoInventory /\ ~whole
  \/ \E n \in -1 .. Len(TableOf(old)) :
       /\ Accepted(old, TableOf(old)) /\ SomeSeq(TableOf(old))
       /\ i = Written(TableOf(old), c, n) /\ (whole => n = Len(TableOf(old)))

\* A buffer is what the file declares under the tensor's name, where the inventory has it too.
Agrees(w, lines, c, reading, k, buffer) ==
  LET want  == Wanted(c)[k]
      table == TableOf(w)
      line  == Find(lines, want[1])
      e     == lines[line]
      t     == table[Find(table, want[1])]
      bytes == BytesOf(w, t)
  IN  /\ line # 0 /\ Find(table, want[1]) # 0
      /\ t.dtype = "F32" /\ t.dims = want[2] /\ e.dtype = "F32"
      /\ \A f \in {"dims", "file_offset", "nbytes"} : e[f] = t[f]
      /\ buffer = IF IsProjection(k) /\ reading = "TRANSPOSED"
                  THEN TransposeSquare(bytes, c.n_embd) ELSE bytes

\* Why a load fails although the inventory is whole and is that of the files that are loaded.
Refused ==
  \/ status \in {"OPEN", "NOMEM", "WEIGHTS"}
  \/ status = "CONFIG" /\ ConfigStatus(config, inventory) = "CONFIG"
  \/ status \in {"SHAPE", "DTYPE", "INVENTORY"} /\ ~HasTensors(file, config)

\* Strengthens LoadInv and ReadingInv.
ListedInv ==
  /\ ListsFile(inventory, made, session.tool.weights, session.tool.config)
  /\ pc \in {"tool open", "tool config", "tool write"} => file = session.tool.weights
  /\ pc \in {"weights", "tables", "tensors", "loaded"} => file = session.load.weights
  /\ pc \in {"tensors", "loaded"} =>
       /\ Accepted(file, TableOf(file)) /\ SomeSeq(TableOf(file))
       /\ \A k \in DOMAIN model.buffers :
            Agrees(file, inventory.lines, config, session.reading, k, model.buffers[k])
  /\ pc = "failed" /\ made /\ session.load = session.tool => Refused

\* The table that a file was opened with.
LEMMA OpenedTable ==
  ASSUME LoadInv, ReadingInv, st.stage = "returned", st.rc = "OK"
  PROVE  st.table = TableOf(file) /\ Accepted(file, TableOf(file)) /\ SomeSeq(TableOf(file))
  BY DEF LoadInv, FileInv, IsStFile, ReadingInv, ReadingAt, HasRead, Accepted

\* Neither program's other steps touch what was listed or loaded.
LEMMA ListedKept ==
  ASSUME ListedInv, UNCHANGED <<inventory, made, session, file>>,
         \/ pc' \in {"written", "checks", "freed"}
         \/ pc' = pc /\ UNCHANGED <<model, status>>
         \/ pc' = "tool config" /\ pc = "tool open"
         \/ pc' = "tool write" /\ pc = "tool config"
         \/ pc' = "tables" /\ pc = "weights"
         \/ pc' = "loaded" /\ pc = "tensors" /\ model' = model
         \/ pc' = "failed" /\ status' \in {"OPEN", "NOMEM", "WEIGHTS"}
  PROVE  ListedInv'
  <1>1. ListsFile(inventory, made, session.tool.weights, session.tool.config)'
    BY DEF ListedInv
  <1>2. pc' = "failed" /\ made' /\ session'.load = session'.tool => Refused'
    BY DEF ListedInv, Refused, config
  <1>3. pc' \in {"tool open", "tool config", "tool write"} => file' = session'.tool.weights
    BY DEF ListedInv
  <1>4. pc' \in {"weights", "tables", "tensors", "loaded"} => file' = session'.load.weights
    BY DEF ListedInv
  <1>5. pc' \in {"tensors", "loaded"} => pc \in {"tensors", "loaded"} /\ model' = model
    OBVIOUS
  <1>6. pc' \in {"tensors", "loaded"} =>
          /\ Accepted(file', TableOf(file')) /\ SomeSeq(TableOf(file'))
          /\ \A k \in DOMAIN model'.buffers :
               Agrees(file', inventory'.lines, config', session'.reading, k, model'.buffers[k])
    BY <1>5 DEF ListedInv, config
  <1> QED BY <1>1, <1>2, <1>3, <1>4, <1>6 DEF ListedInv

\* The tool lists its file's table.
LEMMA ToolWriteListed ==
  ASSUME LoadInv, ReadingInv, ListedInv, NEW n \in -1 .. Len(st.table), ToolWrite(n)
  PROVE  ListedInv'
  <1>1. /\ pc = "tool write" /\ pc' = "written" /\ UNCHANGED session /\ file = session.tool.weights
        /\ inventory' = Written(st.table, session.tool.config, n) /\ made' = (n = Len(st.table))
    BY DEF ToolWrite, ToolExit, ListedInv
  <1>2. st.table = TableOf(file) /\ Accepted(file, TableOf(file)) /\ SomeSeq(TableOf(file))
    BY <1>1, OpenedTable DEF LoadInv, FileInv
  <1>3. ListsFile(inventory', made', session'.tool.weights, session'.tool.config)
    BY <1>1, <1>2 DEF ListsFile
  <1> QED BY <1>1, <1>3 DEF ListedInv

\* A whole inventory of the configuration that is loaded says what that says.
LEMMA WholeAgrees ==
  ASSUME NEW table, SomeSeq(table), NEW c, NEW i, i = Written(table, c, Len(table))
  PROVE  ConfigStatus(c, i) # "INVENTORY"
  <1>1. Len(table) \in Nat
    BY AnyAppend
  <1>2. i.config = [f \in ToolFields |-> c[f]]
    BY <1>1 DEF Written
  <1>3. \A f \in {"n_embd", "n_layer", "n_head", "vocab_size"} : f \in DOMAIN i.config /\ i.config[f] = c[f]
    BY <1>2 DEF ToolFields
  <1> HIDE DEF LoadFields
  <1> QED BY <1>3 DEF ConfigStatus

LEMMA CheckConfigListed ==
  ASSUME LoadInv, ListedInv, CheckConfig
  PROVE  ListedInv'
  <1> DEFINE rc == ConfigStatus(config, inventory)
  <1>1. /\ pc = "checks" /\ UNCHANGED <<session, inventory, made>>
        /\ \/ rc # "OK" /\ pc' = "failed" /\ status' = rc
           \/ pc' = "weights" /\ file' = session.load.weights
    BY DEF CheckConfig, LoadUnchanged, Fail, CallStOpen
  <1>2. ListsFile(inventory, made, session.tool.weights, session.tool.config)'
    BY <1>1 DEF ListedInv
  <1>3. rc' = rc
    BY <1>1 DEF config
  <1>4. ASSUME pc' = "failed", made', session'.load = session'.tool PROVE Refused'
    <2>1. made /\ session.load = session.tool /\ rc # "OK" /\ status' = rc
      BY <1>1, <1>4
    <2>2. PICK n \in -1 .. Len(TableOf(session.tool.weights)) :
            /\ SomeSeq(TableOf(session.tool.weights)) /\ n = Len(TableOf(session.tool.weights))
            /\ inventory = Written(TableOf(session.tool.weights), session.tool.config, n)
      BY <2>1 DEF ListedInv, ListsFile
    <2>3. rc # "INVENTORY"
      BY <2>1, <2>2, WholeAgrees DEF config
    <2>4. rc \in {"OK", "CONFIG", "INVENTORY"}
      <3> HIDE DEF LoadFields
      <3> QED BY DEF ConfigStatus
    <2> HIDE DEF rc
    <2>5. rc = "CONFIG" /\ status' = "CONFIG" /\ rc' = "CONFIG"
      BY <1>3, <2>1, <2>3, <2>4
    <2> QED BY <2>5 DEF Refused, rc
  <1> HIDE DEF rc
  <1>5. /\ pc' \notin {"tool open", "tool config", "tool write", "tensors", "loaded"}
        /\ pc' \in {"weights", "tables", "tensors", "loaded"} => file' = session'.load.weights
    BY <1>1
  <1> QED BY <1>2, <1>4, <1>5 DEF ListedInv

LEMMA AllocTablesListed ==
  ASSUME LoadInv, ReadingInv, ListedInv, NEW records \in BOOLEAN, NEW layers \in BOOLEAN,
         AllocTables(records, layers)
  PROVE  ListedInv'
  <1>1. /\ pc = "tables" /\ UNCHANGED <<session, inventory, made, file>> /\ model.buffers = <<>>
        /\ st.stage = "returned" /\ st.rc = "OK"
    BY DEF AllocTables, LoadUnchanged, LoadInv, ModelInv, FileInv
  <1>2. \/ pc' = "failed" /\ status' = "NOMEM"
        \/ pc' = "tensors" /\ model' = [model EXCEPT !.records = records, !.layers = layers]
    BY DEF AllocTables, Fail
  <1>3. CASE pc' = "failed" /\ status' = "NOMEM"
    BY <1>1, <1>3, ListedKept
  <1>4. CASE pc' = "tensors" /\ model' = [model EXCEPT !.records = records, !.layers = layers]
    <2>1. model'.buffers = <<>>
      BY <1>1, <1>4 DEF LoadInv, ModelInv
    <2>2. Accepted(file, TableOf(file)) /\ SomeSeq(TableOf(file)) /\ file = session.load.weights
      BY <1>1, OpenedTable DEF ListedInv
    <2>3. ListsFile(inventory, made, session.tool.weights, session.tool.config)'
      BY <1>1 DEF ListedInv
    <2>4. \A k \in DOMAIN model'.buffers :
            Agrees(file', inventory'.lines, config', session'.reading, k, model'.buffers[k])
      BY <2>1
    <2> QED BY <1>1, <1>4, <2>2, <2>3, <2>4 DEF ListedInv
  <1> QED BY <1>2, <1>3, <1>4

\* The lines of a whole inventory are found where the tensors are.
LEMMA WholeLines ==
  ASSUME NEW table, SomeSeq(table), NEW c, NEW name
  PROVE  LET lines == Written(table, c, Len(table)).lines IN
         /\ Find(lines, name) = Find(table, name)
         /\ \A k \in DOMAIN table : lines[k] = LineOf(table, k, c)
  <1> DEFINE lines == [k \in 1 .. Len(table) |-> LineOf(table, k, c)]
  <1>1. Written(table, c, Len(table)).lines = lines
    BY DEF Written
  <1>2. DOMAIN table = 1 .. Len(table)
    BY AnyAppend
  <1>3. DOMAIN lines = DOMAIN table /\ \A k \in DOMAIN table : lines[k] = LineOf(table, k, c)
                                                         /\ lines[k].name = table[k].name
    BY <1>2 DEF LineOf
  <1> HIDE DEF lines
  <1>4. { k \in DOMAIN lines : lines[k].name = name } = { k \in DOMAIN table : table[k].name = name }
    BY <1>3
  <1>5. Find(lines, name) = Find(table, name)
    <2> DEFINE A(t) == { k \in DOMAIN t : t[k].name = name }
               F(S) == IF S = {} THEN 0 ELSE CHOOSE k \in S : \A j \in S : k <= j
    <2>1. Find(lines, name) = F(A(lines)) /\ Find(table, name) = F(A(table))
      BY DEF Find
    <2>2. A(lines) = A(table)
      BY <1>4
    <2> HIDE DEF A, F
    <2> QED BY <2>1, <2>2
  <1> QED BY <1>1, <1>3, <1>5

\* What the loader compares.
LEMMA MatchIs ==
  ASSUME NEW name, NEW dims
  PROVE  LET line  == Find(inventory.lines, name)
             entry == Find(st.table, name)
             e     == inventory.lines[line]
             t     == st.table[entry]
         IN  /\ TensorMatches(name, dims) \in {"OK", "INVENTORY", "DTYPE", "SHAPE"}
             /\ TensorMatches(name, dims) = "OK" <=>
                  /\ line # 0 /\ e.dtype = "F32" /\ e.dims = dims /\ entry # 0 /\ t.dtype = "F32"
                  /\ t.dims = e.dims /\ t.nbytes = e.nbytes /\ t.file_offset = e.file_offset
                  /\ Elements(dims) * DtypeSize["F32"] = t.nbytes
  <1> DEFINE line  == Find(inventory.lines, name)
             entry == Find(st.table, name)
             e     == inventory.lines[line]
             t     == st.table[entry]
             size  == Elements(dims) * DtypeSize["F32"]
  <1>1. TensorMatches(name, dims)
          = IF line = 0 THEN "INVENTORY"
            ELSE IF e.dtype # "F32" THEN "DTYPE"
            ELSE IF e.dims # dims THEN "SHAPE"
            ELSE IF entry = 0 THEN "INVENTORY"
            ELSE IF t.dtype # "F32" THEN "DTYPE"
            ELSE IF t.dims # e.dims \/ t.nbytes # e.nbytes \/ t.file_offset # e.file_offset
            THEN "INVENTORY"
            ELSE IF size # t.nbytes THEN "SHAPE"
            ELSE "OK"
    BY DEF TensorMatches
  <1> HIDE DEF line, entry, e, t, size
  <1>2. /\ TensorMatches(name, dims) \in {"OK", "INVENTORY", "DTYPE", "SHAPE"}
        /\ TensorMatches(name, dims) = "OK" <=>
             /\ line # 0 /\ e.dtype = "F32" /\ e.dims = dims /\ entry # 0 /\ t.dtype = "F32"
             /\ t.dims = e.dims /\ t.nbytes = e.nbytes /\ t.file_offset = e.file_offset
             /\ size = t.nbytes
    BY <1>1
  <1> QED BY <1>2 DEF line, entry, e, t, size

\* The entry a file declares under a name.
LEMMA EntryIs ==
  ASSUME NEW w, NEW name, EntryOf(w, name).dtype = "F32"
  PROVE  /\ WellFormed(w) /\ Find(TableOf(w), name) # 0
         /\ EntryOf(w, name) = TableOf(w)[Find(TableOf(w), name)]
  <1> DEFINE table == TableOf(w)
             k == Find(table, name)
  <1>1. EntryOf(w, name) = IF WellFormed(w) /\ k # 0 THEN table[k] ELSE [dtype |-> "none"]
    BY DEF EntryOf
  <1>2. [dtype |-> "none"].dtype # "F32"
    OBVIOUS
  <1> HIDE DEF table, k
  <1> QED BY <1>1, <1>2 DEF table, k

LEMMA EntryFound ==
  ASSUME NEW w, WellFormed(w), NEW name, Find(TableOf(w), name) # 0
  PROVE  EntryOf(w, name) = TableOf(w)[Find(TableOf(w), name)]
  BY DEF EntryOf

\* The tensors the configuration wants, one after the other.
LEMMA WantedPlaces ==
  ASSUME LoadInv, pc \in {"tensors", "loaded"}
  PROVE  /\ config.n_layer \in Nat /\ Len(Wanted(config)) = 4 + 12 * config.n_layer
         /\ DOMAIN Wanted(config) = 1 .. Len(Wanted(config)) /\ Len(Wanted(config)) \in Nat
         /\ DOMAIN model.buffers = 1 .. Len(model.buffers) /\ Len(model.buffers) \in Nat
  <1>1. "n_layer" \in DOMAIN config /\ config.n_layer >= 0 /\ session \in Sessions /\ SomeSeq(model.buffers)
    BY DEF LoadInv, ModelInv
  <1>2. config.n_layer \in Int
    BY <1>1, SessionAssumption DEF config
  <1>3. config.n_layer \in Nat
    BY <1>1, <1>2
  <1>4. Len(Wanted(config)) = 4 + 12 * config.n_layer
    BY <1>3, WantedLength
  <1>5. DOMAIN Wanted(config) = 1 .. 4 + 12 * config.n_layer
    BY DEF Wanted
  <1>6. DOMAIN model.buffers = 1 .. Len(model.buffers) /\ Len(model.buffers) \in Nat
    BY <1>1, AnyAppend
  <1>7. 4 + 12 * config.n_layer \in Nat
    BY <1>3
  <1> QED BY <1>3, <1>4, <1>5, <1>6, <1>7

\* A tensor that the very files of the inventory declare is not refused.
LEMMA FreshMatches ==
  ASSUME LoadInv, ReadingInv, ListedInv, pc = "tensors", made, session.load = session.tool,
         HasTensors(file, config), NEW k \in DOMAIN Wanted(config)
  PROVE  TensorMatches(Wanted(config)[k][1], Wanted(config)[k][2]) = "OK"
  <1> DEFINE name  == Wanted(config)[k][1]
             dims  == Wanted(config)[k][2]
             table == TableOf(file)
             j     == Find(table, name)
             t     == table[j]
             e     == LineOf(table, j, session.tool.config)
  <1>1. st.table = table /\ Accepted(file, table) /\ SomeSeq(table) /\ file = session.tool.weights
    BY OpenedTable DEF LoadInv, FileInv, ListedInv
  <1>2. j # 0 /\ t.dtype = "F32" /\ t.dims = dims
    <2>1. EntryOf(file, name).dtype = "F32" /\ EntryOf(file, name).dims = dims
      BY DEF HasTensors
    <2> HIDE DEF name, dims
    <2> QED BY <2>1, EntryIs
  <1>3. inventory = Written(table, session.tool.config, Len(table))
    BY <1>1 DEF ListedInv, ListsFile
  <1> HIDE DEF table, name, dims
  <1>4. Find(inventory.lines, name) = j /\ \A i \in DOMAIN table : inventory.lines[i] = LineOf(table, i, session.tool.config)
    BY <1>1, <1>3, WholeLines
  <1>5. j \in DOMAIN table
    <2>1. DOMAIN table \subseteq Nat \ {0}
      <3>1. DOMAIN table = 1 .. Len(table)
        BY <1>1, AnyAppend
      <3> QED BY <3>1
    <2> QED BY <1>2, <2>1, FoundFirst
  <1>6. inventory.lines[j] = e /\ HoldsElements(t)
    BY <1>1, <1>4, <1>5 DEF Accepted
  <1>7. e.dtype = t.dtype /\ e.dims = t.dims /\ e.nbytes = t.nbytes /\ e.file_offset = t.file_offset
    BY DEF LineOf
  <1>8. Elements(dims) * DtypeSize["F32"] = t.nbytes
    BY <1>2, <1>6 DEF HoldsElements
  <1> HIDE DEF e
  <1>9. TensorMatches(name, dims) = "OK"
    BY <1>1, <1>2, <1>4, <1>6, <1>7, <1>8, MatchIs
  <1> QED BY <1>9 DEF name, dims

LEMMA LoadTensorListed ==
  ASSUME LoadInv, ReadingInv, ListedInv, NEW mem \in BOOLEAN, NEW ok \in BOOLEAN, LoadTensor(mem, ok)
  PROVE  ListedInv'
  <1> DEFINE k     == Len(model.buffers) + 1
             want  == Wanted(config)[k]
             rc    == TensorMatches(want[1], want[2])
             t     == st.table[Find(st.table, want[1])]
             e     == inventory.lines[Find(inventory.lines, want[1])]
             bytes == BytesOf(file, t)
             buffer == IF IsProjection(k) /\ session.reading = "TRANSPOSED"
                       THEN TransposeSquare(bytes, config.n_embd) ELSE bytes
  <1>1. /\ pc = "tensors" /\ UNCHANGED <<session, inventory, made, file>> /\ SomeSeq(model.buffers)
        /\ Len(model.buffers) < Len(Wanted(config)) /\ st.stage = "returned" /\ st.rc = "OK"
        /\ DOMAIN model = {"config", "records", "layers", "buffers", "recorded"}
    BY DEF LoadTensor, LoadUnchanged, LoadInv, ModelInv, FileInv
  <1>2. /\ st.table = TableOf(file) /\ Accepted(file, TableOf(file)) /\ SomeSeq(TableOf(file))
        /\ file = session.load.weights
    BY <1>1, OpenedTable DEF ListedInv
  <1>3. k \in DOMAIN Wanted(config)
    BY <1>1, WantedPlaces
  <1>4. \/ rc # "OK" /\ pc' = "failed" /\ status' = rc
        \/ pc' = "failed" /\ status' \in {"NOMEM", "WEIGHTS"}
        \/ /\ rc = "OK" /\ pc' = pc
           /\ model' = [model EXCEPT !.buffers = Append(@, buffer), !.recorded = Record(k, want[1])]
    BY DEF LoadTensor, Fail
  <1>5. /\ rc \in {"OK", "INVENTORY", "DTYPE", "SHAPE"}
        /\ rc = "OK" =>
             /\ Find(inventory.lines, want[1]) # 0 /\ e.dtype = "F32" /\ e.dims = want[2]
             /\ Find(st.table, want[1]) # 0 /\ t.dtype = "F32" /\ t.dims = e.dims
             /\ t.nbytes = e.nbytes /\ t.file_offset = e.file_offset
    BY MatchIs
  <1>6. CASE rc # "OK" /\ pc' = "failed" /\ status' = rc
    <2>1. ListsFile(inventory, made, session.tool.weights, session.tool.config)'
      BY <1>1 DEF ListedInv
    <2>2. ASSUME made', session'.load = session'.tool PROVE Refused'
      <3>1. ~HasTensors(file, config)
        BY <1>1, <1>3, <1>6, <2>2, FreshMatches
      <3>2. status' \in {"SHAPE", "DTYPE", "INVENTORY"}
        <4> HIDE DEF rc
        <4> QED BY <1>5, <1>6
      <3>3. config' = config /\ file' = file
        BY <1>1 DEF config
      <3> QED BY <3>1, <3>2, <3>3 DEF Refused
    <2> QED BY <1>6, <2>1, <2>2 DEF ListedInv
  <1>7. CASE pc' = "failed" /\ status' \in {"NOMEM", "WEIGHTS"}
    BY <1>1, <1>7, ListedKept
  <1>8. CASE /\ rc = "OK" /\ pc' = pc
             /\ model' = [model EXCEPT !.buffers = Append(@, buffer), !.recorded = Record(k, want[1])]
    <2> HIDE DEF rc, buffer
    <2>1. model'.buffers = Append(model.buffers, buffer)
      BY <1>1, <1>8
    <2>2. DOMAIN model'.buffers = DOMAIN model.buffers \cup {k}
          /\ model'.buffers[k] = buffer /\ \A j \in DOMAIN model.buffers : model'.buffers[j] = model.buffers[j]
      BY <1>1, <2>1, AnyAppend, AppendedElements
    <2>3. Agrees(file, inventory.lines, config, session.reading, k, buffer)
      BY <1>2, <1>5, <1>8 DEF Agrees, buffer
    <2> HIDE DEF k
    <2>4. ASSUME NEW j \in DOMAIN model'.buffers
          PROVE  Agrees(file, inventory.lines, config, session.reading, j, model'.buffers[j])
      <3>1. CASE j = k
        BY <2>2, <2>3, <3>1
      <3>2. CASE j \in DOMAIN model.buffers
        BY <1>1, <2>2, <3>2 DEF ListedInv
      <3> QED BY <2>2, <2>4, <3>1, <3>2
    <2>5. \A j \in DOMAIN model'.buffers :
            Agrees(file', inventory'.lines, config', session'.reading, j, model'.buffers[j])
      BY <1>1, <2>4 DEF config
    <2>6. ListsFile(inventory, made, session.tool.weights, session.tool.config)'
      BY <1>1 DEF ListedInv
    <2> QED BY <1>1, <1>2, <1>8, <2>5, <2>6 DEF ListedInv
  <1> QED BY <1>4, <1>6, <1>7, <1>8

LEMMA ListedNext == ASSUME LoadInv, ReadingInv, ListedInv, [LoadNext]_vars PROVE ListedInv'
  <1>1. CASE StOpen /\ UNCHANGED loadVars
    BY <1>1, OpenKeepsFile, ListedKept DEF loadVars
  <1>2. CASE CallTool
    <2>1. pc' = "tool open" /\ file' = session.tool.weights /\ UNCHANGED <<session, inventory, made>>
      BY <1>2 DEF CallTool, CallStOpen
    <2>2. ListsFile(inventory, made, session.tool.weights, session.tool.config)'
      BY <2>1 DEF ListedInv
    <2> QED BY <2>1, <2>2 DEF ListedInv
  <1>3. CASE ToolOpened \/ (\E readable \in BOOLEAN : ToolConfig(readable)) \/ ToolCannotWrite
    BY <1>3, ListedKept DEF ToolOpened, ToolConfig, ToolCannotWrite, ToolExit
  <1>4. CASE CallLoad
    BY <1>4, ListedKept DEF CallLoad, LoadUnchanged
  <1>5. CASE WeightsOpened
    BY <1>5, ListedKept DEF WeightsOpened, LoadUnchanged, Fail
  <1>6. CASE LoadReturns \/ ModelFree
    BY <1>6, ListedKept DEF LoadReturns, ModelFree, LoadUnchanged
  <1>7. CASE UNCHANGED vars
    BY <1>7, ListedKept DEF vars, loadVars, readerVars
  <1>8. CASE \E n \in -1 .. Len(st.table) : ToolWrite(n)
    BY <1>8, ToolWriteListed
  <1> QED BY <1>1, <1>2, <1>3, <1>4, <1>5, <1>6, <1>7, <1>8, CheckConfigListed, AllocTablesListed,
             LoadTensorListed DEF LoadNext

(* An inventory lists the first tensors that the file it was made from     *)
(* declares, in order, and what is loaded is what both files declare.      *)
THEOREM ListedInductive == LoadSpec => [](LoadInv /\ ListedInv)
  <1>1. LoadInit => ListedInv
    BY DEF LoadInit, ListedInv, ListsFile
  <1>2. LoadInv /\ ReadingInv /\ ListedInv /\ [LoadNext]_vars => ListedInv'
    BY ListedNext
  <1> QED BY <1>1, <1>2, ReadingInductive, PTL DEF LoadSpec

\* Where a tensor's bytes are.
LEMMA BytesAre ==
  ASSUME NEW w, w.prefix \in Nat, NEW s, NEW h, NEW t, t = Declared(h, s, w), HoldsElements(t)
  PROVE  BytesOf(w, t) = SubSeq(w.cells, w.prefix + t.begin + 1, w.prefix + t.end)
  <1>1. t.file_offset = PrefixBytes + w.prefix + t.begin /\ t.nbytes = t.end - t.begin
    BY DEF Declared
  <1>2. w.prefix \in Nat /\ t.begin \in Nat /\ t.end \in Nat
    BY DEF HoldsElements
  <1>3. /\ t.file_offset - PrefixBytes + 1 = w.prefix + t.begin + 1
        /\ t.file_offset - PrefixBytes + t.nbytes = w.prefix + t.end
    BY <1>1, <1>2 DEF PrefixBytes
  <1> QED BY <1>3 DEF BytesOf

\* The header declares what is found in its table.
LEMMA DeclaredIs ==
  ASSUME NEW w \in Weights, Accepted(w, TableOf(w)), SomeSeq(TableOf(w)), NEW name, Find(TableOf(w), name) # 0
  PROVE  LET t == TableOf(w)[Find(TableOf(w), name)] IN
         /\ t = EntryOf(w, name)
         /\ BytesOf(w, t) = SubSeq(w.cells, w.prefix + t.begin + 1, w.prefix + t.end)
  <1> DEFINE table == TableOf(w)
             h == Header(w)
             spans == InOrder({ s \in Inside(h, <<1, Len(h) + 1>>) : h[s[1]][2] # "__metadata__" })
             j == Find(table, name)
  <1>1. table = [k \in DOMAIN spans |-> Declared(h, spans[k], w)]
    BY DEF TableOf
  <1>2. WellFormed(w) /\ \A k \in DOMAIN table : HoldsElements(table[k])
    BY DEF Accepted
  <1>3. w.prefix \in Nat
    BY ReaderAssumption
  <1> HIDE DEF h, spans
  <1>4. table[j] = EntryOf(w, name)
    BY <1>2, EntryFound
  <1>5. SomeSeq(table) /\ j # 0
    OBVIOUS
  <1> HIDE DEF table
  <1>6. j \in DOMAIN table
    <2>1. DOMAIN table \subseteq Nat \ {0}
      <3>1. DOMAIN table = 1 .. Len(table)
        BY <1>5, AnyAppend
      <3> QED BY <3>1
    <2> QED BY <1>5, <2>1, FoundFirst
  <1>7. table[j] = Declared(h, spans[j], w) /\ HoldsElements(table[j])
    BY <1>1, <1>2, <1>6
  <1> HIDE DEF j
  <1>8. BytesOf(w, table[j]) = SubSeq(w.cells, w.prefix + table[j].begin + 1, w.prefix + table[j].end)
    BY <1>3, <1>7, BytesAre
  <1> QED BY <1>4, <1>8 DEF table, j

LEMMA ProjectionIs ==
  ASSUME NEW k \in Nat
  PROVE  IsProjection(k) <=> k > 4 /\ k % 12 = 9
  <1>1. k > 4 => ((k - 5) % 12 = 4 <=> k % 12 = 9)
    OBVIOUS
  <1> QED BY <1>1 DEF IsProjection

LEMMA ListedFollows == ASSUME LoadInv, ListedInv PROVE LoadsWhatWasInventoried
  <1> SUFFICES ASSUME pc = "loaded" PROVE LoadsWhatWasInventoried
    BY DEF LoadsWhatWasInventoried
  <1> DEFINE w   == session.load.weights
             old == session.tool.weights
             c   == session.tool.config
             name(k) == Wanted(config)[k][1]
  <1>1. /\ Accepted(w, TableOf(w)) /\ SomeSeq(TableOf(w)) /\ w \in Weights /\ old \in Weights
        /\ \A k \in DOMAIN model.buffers :
             Agrees(w, inventory.lines, config, session.reading, k, model.buffers[k])
    BY SessionAssumption DEF ListedInv, LoadInv, ModelInv
  <1>2. DOMAIN model.buffers = DOMAIN Wanted(config) /\ DOMAIN model.buffers \subseteq Nat
    <2>1. Len(model.buffers) = 4 + 12 * config.n_layer
      BY DEF LoadInv, ModelInv
    <2>2. /\ Len(Wanted(config)) = 4 + 12 * config.n_layer
          /\ DOMAIN Wanted(config) = 1 .. Len(Wanted(config))
          /\ DOMAIN model.buffers = 1 .. Len(model.buffers) /\ Len(model.buffers) \in Nat
      BY WantedPlaces
    <2> QED BY <2>1, <2>2
  <1> HIDE DEF w, old, c, name
  <1>3. ASSUME NEW k \in DOMAIN model.buffers
        PROVE  LET t == EntryOf(w, name(k))
                   bytes == SubSeq(w.cells, w.prefix + t.begin + 1, w.prefix + t.end)
               IN  /\ t.dtype = "F32" /\ t.dims = Wanted(config)[k][2]
                   /\ model.buffers[k] = IF session.reading = "TRANSPOSED" /\ k > 4 /\ k % 12 = 9
                                         THEN TransposeSquare(bytes, config.n_embd) ELSE bytes
    <2> DEFINE t == TableOf(w)[Find(TableOf(w), name(k))]
               bytes == BytesOf(w, t)
    <2>1. /\ Find(TableOf(w), name(k)) # 0 /\ t.dtype = "F32" /\ t.dims = Wanted(config)[k][2]
          /\ model.buffers[k] = IF IsProjection(k) /\ session.reading = "TRANSPOSED"
                                THEN TransposeSquare(bytes, config.n_embd) ELSE bytes
      BY <1>1 DEF Agrees, name
    <2>2. t = EntryOf(w, name(k)) /\ bytes = SubSeq(w.cells, w.prefix + t.begin + 1, w.prefix + t.end)
      BY <1>1, <2>1, DeclaredIs
    <2>3. IsProjection(k) <=> k > 4 /\ k % 12 = 9
      BY <1>2, ProjectionIs
    <2> HIDE DEF t, bytes
    <2> QED BY <2>1, <2>2, <2>3
  <1>4. ASSUME NEW k \in DOMAIN model.buffers
        PROVE  LET t == EntryOf(w, name(k))
                   o == EntryOf(old, name(k))
               IN  o.dtype = t.dtype /\ \A f \in {"dims", "file_offset", "nbytes"} : o[f] = t[f]
    <2> DEFINE t == TableOf(w)[Find(TableOf(w), name(k))]
               line == Find(inventory.lines, name(k))
               e == inventory.lines[line]
               table == TableOf(old)
               j == Find(table, name(k))
    <2>1. /\ Find(TableOf(w), name(k)) # 0 /\ line # 0 /\ t.dtype = "F32" /\ e.dtype = "F32"
          /\ \A f \in {"dims", "file_offset", "nbytes"} : e[f] = t[f]
      BY <1>1 DEF Agrees, name
    <2>2. t = EntryOf(w, name(k))
      BY <1>1, <2>1, DeclaredIs
    <2>3. inventory # NoInventory
      <3>1. Find(<<>>, name(k)) = 0
        BY DEF Find
      <3> QED BY <2>1, <3>1 DEF NoInventory
    <2>4. PICK n \in -1 .. Len(table) : /\ Accepted(old, table) /\ SomeSeq(table)
                                        /\ inventory = Written(table, c, n)
      BY <2>3 DEF ListedInv, ListsFile, old, c
    <2>5. /\ j = line /\ j \in DOMAIN table /\ e = LineOf(table, j, c)
      <3> HIDE DEF table
      <3> QED BY <2>1, <2>4, FoundLine
    <2>6. j # 0
      BY <2>1, <2>5
    <2>7. table[j] = EntryOf(old, name(k))
      BY <1>1, <2>4, <2>6, DeclaredIs
    <2>8. e.dtype = table[j].dtype /\ \A f \in {"dims", "file_offset", "nbytes"} : e[f] = table[j][f]
      BY <2>5 DEF LineOf
    <2> HIDE DEF t, e, table, j
    <2> QED BY <2>1, <2>2, <2>7, <2>8
  <1>5. HasTensors(w, config)
    BY <1>2, <1>3 DEF HasTensors, name
  <1> QED BY <1>3, <1>4, <1>5 DEF LoadsWhatWasInventoried, w, old, name

LEMMA RefusalFollows == ASSUME ListedInv PROVE FreshInventoryLoads
  BY DEF ListedInv, Refused, FreshInventoryLoads

(* A model that loads holds, tensor by tensor, the bytes that the file it  *)
(* was loaded from declares under the tensor's name, and the file the      *)
(* inventory was made from declared them in the same place.                *)
THEOREM LoadsTheInventoried == LoadSpec => []LoadsWhatWasInventoried
  <1>1. LoadInv /\ ListedInv => LoadsWhatWasInventoried
    BY ListedFollows
  <1> QED BY <1>1, ListedInductive, PTL

(* The whole inventory of the very files that are loaded never stands in   *)
(* the way.                                                                *)
THEOREM FreshOnesLoad == LoadSpec => []FreshInventoryLoads
  <1>1. LoadInv /\ ListedInv => FreshInventoryLoads
    BY RefusalFollows
  <1> QED BY <1>1, ListedInductive, PTL
=============================================================================
