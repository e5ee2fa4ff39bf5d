------------------------------ MODULE MC_Engine ------------------------------
(***************************************************************************)
(* Letters, in code point order: 1 S, 2 a, 3 s, 4 combining cedilla,       *)
(* 5 S with cedilla, 6 s with cedilla, 7 zero-width space; a and s are     *)
(* neighbouring keys.                                                      *)
(***************************************************************************)
EXTENDS Engine, TLC

MCIgnored    == {7}
MCComposed   == (<<1, 4>> :> 5) @@ (<<3, 4>> :> 6)
MCLowerOf    == (1 :> 3) @@ (5 :> 6)
MCBaseOf     == 6 :> 3
MCAlphabetic == {1, 2, 3, 5, 6}
MCNextKeys   == {<<2, 3>>, <<3, 2>>}

a    == <<2>>
sa   == <<3, 2>>
Sha  == <<5, 2>>
sha  == <<6, 2>>
as   == <<2, 3>>
asha == <<2, 6, 2>>
sasa == <<3, 2, 3, 2>>
ssaas == <<3, 3, 2, 2, 3>>

MCSpelling == <<a, sa, Sha, sha, asha, as, sasa, ssaas>>

Entry(word, zipf) ==
  [word |-> word, normalized |-> Normalize(word), sources |-> {}, zipf |-> zipf]
Listed(word, zipf) == [Entry(word, zipf) EXCEPT !.sources = <<>>]

Record(context, next, count, probability) ==
  [context |-> context, next |-> next, count |-> count, contextCount |-> 3,
   probability |-> probability]

Input(entries, bigrams, trigrams) ==
  [entries |-> entries, withFrequencies |-> TRUE, bigrams |-> bigrams, trigrams |-> trigrams]

\* A small model; one with every kind of record the compiler drops, sorts or refuses;
\* one where two entries share a normalized form.
MCInputs ==
  {Input(<<Entry(Sha, 2), Entry(a, 1)>>,
         <<Record(<<sha>>, a, 1, 1), Record(<<sha>>, sha, 2, 1)>>,
         <<Record(<<sha, a>>, sha, 1, 2)>>),
   [Input(<<Entry(a, 1), [Entry(sasa, 0) EXCEPT !.sources = {2, 1}], Entry(asha, 2)>>,
          <<Record(<<a>>, sa, 1, 1), Record(<<a>>, asha, 1, 1), Record(<<a>>, sasa, 1, 2)>>,
          <<Record(<<asha, a>>, a, 1, 2), Record(<<asha, a>>, sasa, 1, 2)>>)
    EXCEPT !.withFrequencies = FALSE],
   Input(<<Entry(sha, 0), Entry(Sha, 2), Entry(a, 0)>>,
         <<Record(<<a>>, sha, 1, 1), Record(<<sha>>, a, 1, 0)>>, <<>>),
   Input(<<Entry(sha, 0), [Entry(sa, 0) EXCEPT !.word = sha]>>,
         <<Record(<<sa>>, sha, 1, 1), Record(<<sa>>, sa, 1, 1)>>, <<>>),
   Input(<<Entry(a, 1)>>, <<Record(<<a>>, a, 1, 1), Record(<<a>>, a, 2, 1)>>, <<>>),
   Input(<<Entry(a, 1), Entry(sa, 1), Entry(as, 1)>>,
         <<>>, <<Record(<<a, a>>, a, 1, 1), Record(<<a, a>>, as, 1, 2),
                 Record(<<a, a>>, sa, 1, 2)>>)}

MCBatches == {<<Listed(sa, 1), Listed(sha, 0)>>,
              <<Listed(Sha, 1)>>,
              <<Listed(ssaas, 1), Listed(sasa, 0)>>,
              <<Listed(asha, 2), Listed(as, 0), Listed(sasa, 3)>>}

MCQueries == {sa, as, a, <<1, 2>>, <<3, 4, 2>>, <<7>>, asha, <<6, 7, 2, 3>>,
              <<3, 2, 3, 2, 2>>, <<2, 3, 2, 3, 3>>}
=============================================================================
