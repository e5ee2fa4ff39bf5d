-------------------------- MODULE MC_KuwikiBatches --------------------------
(***************************************************************************)
(* Characters, in code point order: 2 hyphen, 4 the digit 5, 5 A, 7 a,     *)
(* 8 b, 9 Cyrillic ya.                                                     *)
(***************************************************************************)
EXTENDS KuwikiBatches

MCEmpty    == [p \in {} |-> 0]
MCLowerOf  == 5 :> 7
MCCategory == 2 :> "Pd" @@ 4 :> "Nd" @@ 5 :> "Lu" @@ 7 :> "Ll" @@ 8 :> "Ll" @@ 9 :> "Ll"
MCScript   == [c \in DOMAIN MCCategory |->
                 IF c = 9 THEN "Cyrillic" ELSE IF c \in {5, 7, 8} THEN "Latin" ELSE "Common"]

a  == <<7>>
ab == <<7, 8>>
Ab == <<5, 8>>
ba == <<8, 7>>
aa == <<7, 7>>
bb == <<8, 8>>
aba == <<7, 8, 7>>
bab == <<8, 7, 8>>

MCProtocolWords == {<<8>>}
MCSeed == {a}

Document(tokens) ==
  [corpus |-> "kuwiki", canonical |-> "kuwiki", original |-> TRUE, tokens |-> tokens]

\* Known, numeric, foreign, too long and URL words beside those that are offered; a copy
\* of a document, and one of another corpus.
Train1 == <<Document(<<ab, Ab, a, <<4>>, <<9, 7>>>>), Document(<<ab, ba, <<8, 8, 8, 8>>>>),
            Document(<<ba, aa, aba, <<8>>>>),
            [Document(<<aa, aa, aa>>) EXCEPT !.original = FALSE],
            [Document(<<bb>>) EXCEPT !.corpus = "news", !.canonical = "news"]>>

\* Other counts, and two words more.
Train2 == <<Document(<<aba, aba, ba>>), Document(<<bb, aba>>), Document(<<ab, bab>>)>>

MCTrain == <<Train1, Train2>>

Answer(approved, rejected) ==
  [w \in {ab, ba, aa, bb, aba, bab} |->
     IF w \in approved THEN "Approved"
     ELSE IF w \in rejected THEN "RejectedFromDefaultPack"
     ELSE "ExperimentalOnly"]

MCVerdicts == {Answer({ab}, {ba, aa, bb}), Answer({}, {ab, ba, aa, bb, aba, bab}),
               [Answer({ba}, {}) EXCEPT ![ab] = "Unreviewed"]}
=============================================================================
