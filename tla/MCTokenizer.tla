---------------------------- MODULE MCTokenizer ----------------------------
(***************************************************************************)
(* Small instances of the tokenizer: texts over an alphabet with one or    *)
(* two bytes of each class, a two-byte letter whose lead and continuation  *)
(* also occur alone, and an apostrophe.                                    *)
(***************************************************************************)
EXTENDS Tokenizer

CONSTANTS la, ls, num, sp, nl, quo, lead, cont

Alphabet == {la, ls, num, sp, nl, quo, lead, cont}

(* Every text of up to three bytes; of four bytes, those where whitespace  *)
(* and contractions meet, and those with broken characters; of six, those  *)
(* the merge loop has most to do with.                                     *)
MCTexts ==
  UNION { [1 .. k -> Alphabet] : k \in 0 .. 3 }
  \cup [1 .. 4 -> {la, ls, sp, nl, quo}]
  \cup [1 .. 4 -> {lead, cont, sp, quo}]
  \cup [1 .. 6 -> {la, ls}]

MCClass ==
  [c \in {<<la>>, <<ls>>, <<num>>, <<sp>>, <<nl>>, <<quo>>, <<lead, cont>>} |->
     CASE c \in {<<la>>, <<ls>>, <<lead, cont>>} -> "letter"
       [] c = <<num>> -> "number"
       [] c = <<quo>> -> "other"
       [] c \in {<<sp>>, <<nl>>} -> "space"]

MCContractions == { <<quo, ls>> }

Table(merges, added, unknown) ==
  [merges |-> merges, added |-> added,
   vocab |-> ({ <<b>> : b \in Alphabet } \cup { Joined(merges[k]) : k \in DOMAIN merges }
              \cup added) \ unknown]

(* Runs of one letter, where pairs overlap, under the two orders of the    *)
(* merges that compete; and a table with added tokens one of which begins  *)
(* another, and with a symbol and a byte that are not in the vocabulary.    *)
MCTables ==
  { Table(<< <<<<la>>, <<la>>>>, <<<<la, la>>, <<la>>>>, <<<<sp>>, <<la>>>> >>, {}, {}),
    Table(<< <<<<sp>>, <<la>>>>, <<<<la>>, <<ls>>>>, <<<<la>>, <<la>>>>, <<<<la, la>>, <<la, ls>>>> >>,
          {}, {}),
    Table(<< <<<<la>>, <<la>>>>, <<<<lead>>, <<cont>>>> >>,
          { <<quo, ls>>, <<quo, ls, quo>>, <<sp, la>> }, { <<la, la>>, <<num>> }) }
=============================================================================
