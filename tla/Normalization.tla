--------------------------- MODULE Normalization ---------------------------
(***************************************************************************)
(* Text as the engine compares it: engine/src/normalization.rs, and the    *)
(* letter classes engine.rs uses to choose the case of an answer.          *)
(*                                                                         *)
(* A letter is a number, its place in code point order, and a word is a    *)
(* sequence of letters.  The constants are the facts of the character set  *)
(* the code relies on, for the letters of an instance.                     *)
(***************************************************************************)
EXTENDS Naturals, Sequences, FiniteSets

CONSTANTS Ignored,      \* control characters, U+200B and U+FEFF
          Composed,     \* <<letter, combining mark>> -> their NFC composition
          LowerOf,      \* upper-case letter -> lower-case letter
          BaseOf,       \* lower-case letter with a diacritic -> its base letter
          Alphabetic    \* char::is_alphabetic

ASSUME LettersAssumption ==
  /\ Ignored \cap Alphabetic = {}
  /\ DOMAIN LowerOf \cup DOMAIN BaseOf \subseteq Alphabetic
  /\ \A p \in DOMAIN Composed : Composed[p] \in Nat
  /\ \A c \in DOMAIN LowerOf : LowerOf[c] \in Nat \ DOMAIN LowerOf
  /\ \A c \in DOMAIN BaseOf : BaseOf[c] \in Nat \ DOMAIN BaseOf

\* The elements of a finite set in the order of Less, a strict total order on it.
Ranked(S, Less(_, _)) ==
  [k \in 1..Cardinality(S) |->
     CHOOSE x \in S : Cardinality({y \in S : Less(y, x)}) = k - 1]

\* The elements of a sequence at some of its indices.
Sublist(s, indices) ==
  LET order == Ranked(indices, <)
  IN  [k \in DOMAIN order |-> s[order[k]]]

Mapped(table, c) == IF c \in DOMAIN table THEN table[c] ELSE c

\* A letter followed by a mark it composes with becomes one letter.
WithLetter(done, c) ==
  LET last == <<done[Len(done)], c>>
  IN  IF done # <<>> /\ last \in DOMAIN Composed
      THEN Append(SubSeq(done, 1, Len(done) - 1), Composed[last])
      ELSE Append(done, c)

Compose(w) ==
  LET upTo[i \in 0..Len(w)] == IF i = 0 THEN <<>> ELSE WithLetter(upTo[i - 1], w[i])
  IN  upTo[Len(w)]

ToLowerCase(w) == [i \in 1..Len(w) |-> Mapped(LowerOf, w[i])]

\* normalize: drop the invisible characters, compose, lower the case.
Visible(text) == Sublist(text, {i \in DOMAIN text : text[i] \notin Ignored})

Normalize(text) == ToLowerCase(Compose(Visible(text)))

Unaccented(w) == [i \in 1..Len(w) |-> Mapped(BaseOf, w[i])]

StripDiacritics(text) == Unaccented(Normalize(text))

Upper(c) == c \in DOMAIN LowerOf
Lower(c) == c \in Alphabetic \ DOMAIN LowerOf

\* An upper-case letter followed by at least one letter, all lower-case.
IsTitleCaseLike(w) ==
  LET alpha == SelectSeq(w, LAMBDA c : c \in Alphabetic)
  IN  /\ Len(alpha) > 1
      /\ Upper(alpha[1])
      /\ \A i \in 2..Len(alpha) : Lower(alpha[i])

IsAllLowercase(w) ==
  LET alpha == SelectSeq(w, LAMBDA c : c \in Alphabetic)
  IN  alpha # <<>> /\ \A i \in 1..Len(alpha) : Lower(alpha[i])

\* The order of str: by the first letter that differs, a prefix first.
WordLess(v, w) ==
  \/ \E i \in 1..Len(v) : /\ i <= Len(w)
                          /\ v[i] < w[i]
                          /\ SubSeq(v, 1, i - 1) = SubSeq(w, 1, i - 1)
  \/ Len(v) < Len(w) /\ v = SubSeq(w, 1, Len(v))

StartsWith(w, prefix) ==
  Len(prefix) <= Len(w) /\ SubSeq(w, 1, Len(prefix)) = prefix
=============================================================================
