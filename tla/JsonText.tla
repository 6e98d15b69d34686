------------------------------ MODULE JsonText ------------------------------
(***************************************************************************)
(* JSON texts, as the sequences of tokens module JsonScan reads, for the   *)
(* instances that are model-checked.                                       *)
(***************************************************************************)
EXTENDS Integers, Sequences

Str(s) == <<"str", s>>
Num(n) == <<"num", n>>
Colon == <<":">>
Listed(parts) ==
  LET from[k \in 1 .. Len(parts) + 1] ==
        IF k > Len(parts) THEN <<>>
        ELSE (IF k = 1 THEN <<>> ELSE << <<",">> >>) \o parts[k] \o from[k + 1]
  IN  from[1]
Obj(parts) == << <<"{">> >> \o Listed(parts) \o << <<"}">> >>
Arr(parts) == << <<"[">> >> \o Listed(parts) \o << <<"]">> >>
Of(name, value) == <<Str(name), Colon>> \o value
=============================================================================
