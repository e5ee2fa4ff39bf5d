------------------------------ MODULE Distance ------------------------------
(***************************************************************************)
(* engine/src/distance.rs: the weighted Damerau-Levenshtein distance, in   *)
(* quarters (1.0 is 4), computed row by row.  The completion trie fills    *)
(* the same kind of rows with unit costs, so a row is an operator of the   *)
(* substitution cost, the cost of a gap and the cost of a transposition.   *)
(***************************************************************************)
EXTENDS Normalization

CONSTANT NextKeys   \* the pairs of letters on neighbouring keys, both ways

Gap      == 4       \* an insertion or a deletion, 1.0
Swap     == 3       \* a transposition of neighbours, 0.75
MaxEdit  == 8       \* the scorer accepts distances up to 2.0

DiacriticPair(a, b) ==
  \/ a \in DOMAIN BaseOf /\ BaseOf[a] = b
  \/ b \in DOMAIN BaseOf /\ BaseOf[b] = a

SubstitutionCost(a, b) ==
  CASE a = b                  -> 0
    [] a # b /\ DiacriticPair(a, b) -> 1
    [] a # b /\ ~DiacriticPair(a, b) /\ <<a, b>> \in NextKeys -> 3
    [] OTHER                  -> 4

UnitCost(a, b) == IF a = b THEN 0 ELSE 1

Least(S) == CHOOSE x \in S : \A y \in S : x <= y

FirstRow(m, gap) == [j \in 1..(m + 1) |-> (j - 1) * gap]

(***************************************************************************)
(* Row d of the table that aligns a path of d letters with word: cell      *)
(* j + 1 is the distance between the path and the first j letters of word. *)
(* c is the path's last letter, p the one before it (when d >= 2), prev    *)
(* and prev2 the two rows before this one.                                 *)
(***************************************************************************)
NextRow(d, c, p, prev, prev2, word, Cost(_, _), gap, swap) ==
  LET cells[j \in 0..Len(word)] ==
        IF j = 0 THEN <<d * gap>>
        ELSE LET row == cells[j - 1]
                 edits == {prev[j] + Cost(c, word[j]), prev[j + 1] + gap, row[j] + gap}
                 swaps == IF d >= 2 /\ j >= 2 /\ c = word[j - 1] /\ p = word[j]
                          THEN {prev2[j - 1] + swap} ELSE {}
             IN  Append(row, Least(edits \cup swaps))
  IN  cells[Len(word)]

\* weighted_damerau_levenshtein(v, w), in quarters.
WeightedDistance(v, w) ==
  LET rows[i \in 0..Len(v)] ==
        IF i = 0 THEN <<FirstRow(Len(w), Gap)>>
        ELSE LET done == rows[i - 1]
             IN  Append(done, NextRow(i, v[i], v[IF i = 1 THEN 1 ELSE i - 1], done[i],
                                      done[IF i = 1 THEN 1 ELSE i - 1], w,
                                      SubstitutionCost, Gap, Swap))
  IN  rows[Len(v)][Len(v) + 1][Len(w) + 1]

\* The distance of two words at unit cost, by the table of these two words alone.
UnitDistance(v, w) ==
  LET rows[i \in 0..Len(v)] ==
        IF i = 0 THEN <<FirstRow(Len(w), 1)>>
        ELSE LET done == rows[i - 1]
                 j == IF i = 1 THEN 1 ELSE i - 1
             IN  Append(done, NextRow(i, v[i], v[j], done[i], done[j], w, UnitCost, 1, 1))
  IN  rows[Len(v)][Len(v) + 1][Len(w) + 1]
=============================================================================
