------------------------------ MODULE Alphabet ------------------------------
(***************************************************************************)
(* The text rules of the lexicon tools: normalisation (normalize.rs), the  *)
(* two default-pack policies (alphabet.rs) and the classes of words        *)
(* (audit/classify.rs).                                                    *)
(*                                                                         *)
(* A word is a sequence of characters; Category and Script are the Unicode *)
(* tables for the characters of an instance.  A character is one grapheme. *)
(***************************************************************************)
EXTENDS Normalization

CONSTANTS KurmanciAlphabet,         \* the lower-case letters, 31 in the code
          Hyphen, Apostrophes, Space,
          Category,                 \* character -> general category
          Script,                   \* character -> script
          VeryLong                  \* graphemes of a word that is still not very long, 25

WordInternalPunctuation == {Hyphen} \cup Apostrophes

ASSUME AlphabetAssumption ==
  /\ KurmanciAlphabet \cap (WordInternalPunctuation \cup {Space}) = {}
  /\ Ignored \cap (KurmanciAlphabet \cup WordInternalPunctuation) = {}
  /\ \A p \in DOMAIN Composed : p[2] \notin KurmanciAlphabet \cup WordInternalPunctuation
  /\ DOMAIN Script = DOMAIN Category
  /\ KurmanciAlphabet \cup WordInternalPunctuation \cup Alphabetic \subseteq DOMAIN Category

Chars(w) == {w[i] : i \in 1..Len(w)}

NormalizeText(text) == Normalize(text)

(***************************************************************************)
(* The policies.                                                           *)
(***************************************************************************)
OutOfAlphabetChars(w) == Chars(w) \ (KurmanciAlphabet \cup WordInternalPunctuation)
Eligible(w) == OutOfAlphabetChars(w) = {}

WordPunctuationChars(w) == Chars(w) \cap WordInternalPunctuation
Held(w) == WordPunctuationChars(w) # {}

PunctuationStrippedForm(w) ==
  Sublist(w, {i \in DOMAIN w : w[i] \notin WordInternalPunctuation})

(***************************************************************************)
(* Classes of characters and of words.                                     *)
(***************************************************************************)
Punctuation == {"Pc", "Pd", "Pe", "Pf", "Pi", "Po", "Ps"}
Symbols     == {"Sc", "Sk", "Sm", "So"}
Numbers     == {"Nd", "Nl", "No"}
Letters     == {"Lu", "Ll", "Lt", "Lm", "Lo"}
Blanks      == {"Zs", "Zl", "Zp"}

LettersOf(w) == SelectSeq(w, LAMBDA c : Category[c] \in Letters)

\* The scripts of the letters, the shared ones left out.
ScriptsOf(w) == {Script[c] : c \in Chars(LettersOf(w))} \ {"Common", "Inherited"}

ClassifyScript(w) ==
  LET scripts == ScriptsOf(w)
  IN  IF scripts = {} THEN "NO_SCRIPTED_LETTERS"
      ELSE IF scripts = {"Latin"} THEN "LATIN_ONLY"
      ELSE IF scripts = {"Arabic"} THEN "ARABIC_ONLY"
      ELSE IF scripts = {"Cyrillic"} THEN "CYRILLIC_ONLY"
      ELSE IF Cardinality(scripts) = 1 THEN "OTHER_SINGLE_SCRIPT"
      ELSE IF scripts = {"Latin", "Arabic"} THEN "LATIN_ARABIC_MIXED"
      ELSE IF scripts = {"Latin", "Cyrillic"} THEN "LATIN_CYRILLIC_MIXED"
      ELSE "OTHER_MIXED_SCRIPT"

UnusualScripts == {"ARABIC_ONLY", "CYRILLIC_ONLY", "OTHER_SINGLE_SCRIPT"}
MixedScripts   == {"LATIN_ARABIC_MIXED", "LATIN_CYRILLIC_MIXED", "OTHER_MIXED_SCRIPT"}

TitleCase(word) ==
  LET letters == LettersOf(word)
  IN  /\ Len(letters) >= 2
      /\ Category[letters[1]] = "Lu"
      /\ \A i \in 2..Len(letters) : Category[letters[i]] = "Ll"

\* classify_shape: of the normalized form, but of the word as spelled for its case.
ClassifyShape(word, normalized) ==
  LET classes == {Category[c] : c \in Chars(normalized)} \ Blanks
      only(set) == classes # {} /\ classes \subseteq set
      cases == {Category[c] : c \in Chars(word)} \cap {"Lu", "Ll"}
      letters == classes \cap Letters # {}
  IN  [punctuation_only    |-> only(Punctuation),
       symbol_only         |-> only(Symbols),
       digit_only          |-> only(Numbers),
       no_letters          |-> ~letters,
       uppercase_only      |-> cases = {"Lu"},
       title_case          |-> TitleCase(word),
       mixed_case          |-> cases = {"Lu", "Ll"} /\ ~TitleCase(word),
       contains_digits     |-> letters /\ classes \cap Numbers # {},
       contains_hyphen     |-> Hyphen \in Chars(normalized),
       contains_apostrophe |-> Chars(normalized) \cap Apostrophes # {},
       multiword           |-> Space \in Chars(normalized),
       very_short          |-> Len(normalized) <= 1,
       very_long           |-> Len(normalized) > VeryLong]
=============================================================================
