----------------------------- MODULE Suggestions -----------------------------
(***************************************************************************)
(* The suggestion pipeline of engine/src/engine.rs and the ranking policy  *)
(* of engine/src/ranking.rs.  Each stage writes the map of candidates,     *)
(* keyed by normalized form; the production path and the reference scan    *)
(* differ only in which entries they visit and in how they look one up.    *)
(*                                                                         *)
(* The floating-point score is computed after the order is decided and is  *)
(* left out; of the frequency metadata the zipf value is kept, the         *)
(* document count being compared next and in the same direction.           *)
(***************************************************************************)
EXTENDS QueryIndex

KindPriority(kind) ==
  CASE kind = "Exact" -> 0
    [] kind = "DiacriticCorrection" -> 1
    [] kind = "Completion" -> 2
    [] kind = "Correction" -> 3

(***************************************************************************)
(* cmp_with_config: kinds first (an exact match before everything), then   *)
(* for completions quality, frequency, length and text, and for the other  *)
(* kinds cost, diacritic match, frequency and text.                        *)
(***************************************************************************)
RankKey(c, useFrequency) ==
  LET zipf == IF useFrequency THEN 0 - c.zipf ELSE 0
  IN  <<KindPriority(c.kind)>> \o
      (IF c.kind = "Completion" THEN <<0 - c.quality, zipf, Len(c.word)>>
       ELSE <<c.cost, IF c.diacritic THEN 0 ELSE 1, zipf>>)

CandidateLessByRankOnly(a, b, useFrequency) ==
  \E i \in 1..4 : /\ RankKey(a, useFrequency)[i] < RankKey(b, useFrequency)[i]
                  /\ \A j \in 1..(i - 1) :
                       RankKey(a, useFrequency)[j] = RankKey(b, useFrequency)[j]

CandidateLess(a, b, useFrequency) ==
  LET Before(ka, kb) ==
        \/ \E i \in 1..4 : /\ ka[i] < kb[i]
                           /\ \A j \in 1..(i - 1) : ka[j] = kb[j]
        \/ ka = kb /\ WordLess(a.word, b.word)
  IN  Before(RankKey(a, useFrequency), RankKey(b, useFrequency))

Put(ranks, w, c) == [k \in DOMAIN ranks \cup {w} |-> IF k = w THEN c ELSE ranks[k]]

NoCandidates == [k \in {} |-> 0]

HitWords(trie, query) ==
  LET Words(hits) == {hits[k].word : k \in DOMAIN hits} IN Words(FindByPrefix(trie, query))

\* prefix_stage: every word under the query is an exact match or a completion;
\* position gives the entry each of those words was found at.
PrefixStage(lexicon, query, position) ==
  LET candidate(w) ==
        LET i == position[w]
            exact == w = query
        IN  [word      |-> IF i = NotFound THEN w ELSE lexicon[i].word,
             cost      |-> IF exact THEN 0 ELSE 1,
             diacritic |-> StripDiacritics(w) = StripDiacritics(query),
             quality   |-> IF exact THEN 100 ELSE Len(query),
             zipf      |-> IF i = NotFound THEN 0 ELSE lexicon[i].zipf,
             kind      |-> IF exact THEN "Exact" ELSE "Completion"]
  IN  [w \in DOMAIN position |-> candidate(w)]

\* The edit cost shown for a distance in quarters: ten times it, rounded.
EditCost(quarters) == (5 * quarters + 1) \div 2

\* What an entry scores at a weighted distance from the query.
Scored(entry, query, restored, distance) ==
  LET norm == entry.normalized
  IN  [word      |-> entry.word,
       cost      |-> IF norm = query THEN 0 ELSE EditCost(distance),
       diacritic |-> restored,
       quality   |-> IF StartsWith(norm, query) THEN Len(query) ELSE 0,
       zipf      |-> entry.zipf,
       kind      |-> IF norm = query THEN "Exact"
                     ELSE IF StartsWith(norm, query) THEN "Completion"
                     ELSE "Correction"]

Restored(entry) ==
  [word |-> entry.word, cost |-> 0, diacritic |-> TRUE, quality |-> 0,
   zipf |-> entry.zipf, kind |-> "DiacriticCorrection"]

\* score_entry: diacritic restoration, else the weighted distance.
ScoreEntry(lexicon, i, query, useFrequency, ranks) ==
  LET norm == lexicon[i].normalized
      apart == IF Len(norm) > Len(query) THEN Len(norm) - Len(query)
               ELSE Len(query) - Len(norm)
      Kept(found) ==
        IF norm \in DOMAIN ranks => CandidateLess(found, ranks[norm], useFrequency)
        THEN Put(ranks, norm, found) ELSE ranks
      At(restored, distance) ==
        IF restored /\ norm # query THEN Put(ranks, norm, Restored(lexicon[i]))
        ELSE IF apart <= 2 /\ distance <= MaxEdit
        THEN Kept(Scored(lexicon[i], query, restored, distance))
        ELSE ranks
  IN  At(StripDiacritics(norm) = StripDiacritics(query), WeightedDistance(query, norm))

\* The scoring stage over the positions of order, in that order.
ScoreAll(lexicon, order, query, useFrequency, ranks) ==
  LET scored[k \in 0..Len(order)] ==
        IF k = 0 THEN ranks
        ELSE LET before == scored[k - 1]
             IN  ScoreEntry(lexicon, order[k], query, useFrequency, before)
  IN  scored[Len(order)]

\* suggest_indexed, up to the ranking.
IndexedCandidates(lexicon, trie, index, text, useFrequency) ==
  LET For(query) ==
        IF query = <<>> THEN NoCandidates
        ELSE ScoreAll(lexicon,
               NearPositions(index, StripDiacritics(query), MaxStrippedUnitDistance),
               query, useFrequency,
               PrefixStage(lexicon, query,
                 [w \in HitWords(trie, query) |-> FindNormalized(index, lexicon, w)]))
  IN  For(Normalize(text))

\* suggest_reference_full_scan, up to the ranking.
ScannedCandidates(lexicon, trie, text, useFrequency) ==
  LET For(query) ==
        IF query = <<>> THEN NoCandidates
        ELSE ScoreAll(lexicon, [i \in DOMAIN lexicon |-> i], query, useFrequency,
               PrefixStage(lexicon, query,
                 [w \in HitWords(trie, query) |-> PositionNormalized(lexicon, w)]))
  IN  For(Normalize(text))

\* finish_suggestions: rank, cut, and choose the case of the text shown.
Finish(candidates, text, limit, useFrequency) ==
  LET shown(w) == IF IsAllLowercase(text) /\ IsTitleCaseLike(w) THEN ToLowerCase(w) ELSE w
      First(ranked) ==
        [k \in 1..(IF Len(ranked) < limit THEN Len(ranked) ELSE limit) |->
           [text |-> shown(ranked[k].word), kind |-> ranked[k].kind, cost |-> ranked[k].cost]]
  IN  First(Ranked({candidates[w] : w \in DOMAIN candidates},
                   LAMBDA a, b : CandidateLess(a, b, useFrequency)))
=============================================================================
