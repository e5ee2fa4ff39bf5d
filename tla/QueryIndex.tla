----------------------------- MODULE QueryIndex -----------------------------
(***************************************************************************)
(* engine/src/index.rs: which lexicon entries a query can match at all.    *)
(* The lexicon is a sequence of entries; an index is built once from it    *)
(* and holds positions, so it is right only for the lexicon it was built   *)
(* from.                                                                   *)
(***************************************************************************)
EXTENDS CompletionTrie

MaxStrippedUnitDistance == 2

NotFound == 0

Positions(lexicon, Key(_)) ==
  Ranked(DOMAIN lexicon,
         LAMBDA a, b : \/ WordLess(Key(a), Key(b))
                       \/ Key(a) = Key(b) /\ a < b)

IndexOfUnstripped(lexicon) ==
  LET From(order) ==
        [byNormalized |-> order,
         byStripped   |-> order,
         trie         |-> TrieOf([k \in DOMAIN order |->
                                    [word |-> lexicon[order[k]].normalized,
                                     value |-> [start |-> k, len |-> 1]]])]
  IN  From(Positions(lexicon, LAMBDA i : lexicon[i].normalized))

\* The runs of equal stripped forms among the positions sorted by stripped form.
StrippedRuns(stripped, byStripped) ==
  LET form(k) == stripped[byStripped[k]]
      n == Len(byStripped)
      starts == {k \in 1..n : k = 1 \/ form(k) # form(k - 1)}
      Runs(order) ==
        [i \in DOMAIN order |->
           LET end == IF i = Len(order) THEN n + 1 ELSE order[i + 1]
           IN  [word |-> form(order[i]),
                value |-> [start |-> order[i], len |-> end - order[i]]]]
  IN  Runs(Ranked(starts, LAMBDA a, b : a < b))

\* QueryIndex::build.
IndexOf(lexicon) ==
  LET Sorted(stripped, byStripped) ==
        [byNormalized |-> Positions(lexicon, LAMBDA i : lexicon[i].normalized),
         byStripped   |-> byStripped,
         trie         |-> TrieOf(StrippedRuns(stripped, byStripped))]
      From(stripped) == Sorted(stripped, Positions(lexicon, LAMBDA i : stripped[i]))
  IN  From([i \in DOMAIN lexicon |-> StripDiacritics(lexicon[i].normalized)])

EmptyIndex == [byNormalized |-> <<>>, byStripped |-> <<>>, trie |-> EmptyTrie]

FindNormalizedLast(index, lexicon, w) ==
  LET here == {i \in DOMAIN lexicon : lexicon[i].normalized = w}
  IN  IF here = {} THEN NotFound ELSE CHOOSE i \in here : \A j \in here : j <= i

\* find_normalized: the partition point of the sorted positions, if it matches.
FindNormalized(index, lexicon, w) ==
  LET less == {k \in DOMAIN index.byNormalized :
                 WordLess(lexicon[index.byNormalized[k]].normalized, w)}
      first == Cardinality(less) + 1
  IN  IF /\ first \in DOMAIN index.byNormalized
         /\ lexicon[index.byNormalized[first]].normalized = w
      THEN index.byNormalized[first] ELSE NotFound

\* LexiconStore::position_normalized, the linear search of the reference.
PositionNormalized(lexicon, w) ==
  LET here == {i \in DOMAIN lexicon : lexicon[i].normalized = w}
  IN  IF here = {} THEN NotFound ELSE Least(here)

\* candidates: the positions whose stripped form is near the query's, ascending.
NearPositions(index, queryStripped, radius) ==
  LET In(runs) == UNION {{index.byStripped[k] :
                            k \in runs[r].start..(runs[r].start + runs[r].len - 1)} :
                         r \in DOMAIN runs}
  IN  Ranked(In(FuzzyTerminals(index.trie, queryStripped, radius)), LAMBDA a, b : a < b)
=============================================================================
