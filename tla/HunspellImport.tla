--------------------------- MODULE HunspellImport ---------------------------
(***************************************************************************)
(* Reading a Hunspell dictionary: importers/hunspell.rs.  The importer and *)
(* the shared parser (which the audit and the queue generator use) each    *)
(* walk the lines with a loop of their own.                                *)
(*                                                                         *)
(* A line is Blank, BadUtf8, or the word before the first slash, the flags *)
(* after it and the morphology tags, as the tokeniser splits them.         *)
(***************************************************************************)
EXTENDS Alphabet

CONSTANTS Blank, BadUtf8, Slash,
          Forbidden,      \* characters of a word that is refused
          PartOfSpeech,   \* po: tag -> canonical part of speech
          Digit,          \* ASCII digit -> its value
          MaxWord         \* characters of the longest word accepted, 64

Lines == [word : Seq(Nat), flags : Seq(Nat), morphology : Seq(Nat)]

ASSUME LineAssumption == Blank # BadUtf8 /\ Slash \in Nat

TextLine(line) == line \notin {Blank, BadUtf8}

\* The line as it stands in the file; an undecodable one is kept as the empty string.
RawLine(line) ==
  IF line = BadUtf8 THEN <<>>
  ELSE line.word \o (IF line.flags = <<>> THEN <<>> ELSE <<Slash>> \o line.flags)
         \o line.morphology

IsCount(line) ==
  /\ TextLine(line)
  /\ line.word # <<>>
  /\ line.flags = <<>> /\ line.morphology = <<>>
  /\ Chars(line.word) \subseteq DOMAIN Digit

CountOf(line) ==
  LET value[i \in 0..Len(line.word)] ==
        IF i = 0 THEN 0 ELSE 10 * value[i - 1] + Digit[line.word[i]]
  IN  value[Len(line.word)]

\* parse_hunspell_line: why a line is refused, "" if it is not.
RefusalOf(line) ==
  IF line.word = <<>> THEN "EMPTY_WORD"
  ELSE IF Chars(line.word) \cap Forbidden # {} THEN "FORBIDDEN_CHARACTERS"
  ELSE IF Len(NormalizeText(line.word)) \notin 1..MaxWord THEN "INVALID_LENGTH"
  ELSE ""

\* map_part_of_speech: the first po: tag decides.
PosOf(morphology) ==
  LET tags == SelectSeq(morphology, LAMBDA t : t \in DOMAIN PartOfSpeech)
  IN  IF tags = <<>> THEN "unknown" ELSE PartOfSpeech[tags[1]]

RecordOf(line, number) ==
  [word |-> line.word, normalized |-> NormalizeText(line.word), flags |-> line.flags,
   morphology |-> line.morphology, pos |-> PosOf(line.morphology), line |-> number]

Same(r, s) ==
  /\ r.word = s.word /\ r.flags = s.flags
  /\ r.morphology = s.morphology /\ r.pos = s.pos

RejectionOf(line, number) ==
  [line |-> number, raw |-> RawLine(line),
   reason |-> IF line = BadUtf8 THEN "INVALID_UTF8" ELSE RefusalOf(line)]

(***************************************************************************)
(* parse_hunspell_source: a count may stand on the first line that decodes.*)
(***************************************************************************)
Replayed(file) ==
  LET decoded == {i \in DOMAIN file : file[i] # BadUtf8}
      head(i) == /\ i \in decoded
                 /\ \A j \in decoded : j >= i
                 /\ IsCount(file[i])
      entry(i) == file[i] # Blank /\ ~head(i)
  IN  [parsed |-> {RecordOf(file[i], i) : i \in
                     {j \in decoded : entry(j) /\ RefusalOf(file[j]) = ""}},
       rejected |-> {RejectionOf(file[i], i) : i \in
                       {j \in DOMAIN file : \/ j \notin decoded
                                            \/ entry(j) /\ RefusalOf(file[j]) # ""}},
       blank |-> {i \in DOMAIN file : file[i] = Blank},
       declared |-> {CountOf(file[i]) : i \in {j \in DOMAIN file : head(j)}},
       physical |-> Len(file)]

(***************************************************************************)
(* import_hunspell_dic: the first record of each normalized form is kept;  *)
(* a later one is a duplicate of it or conflicts with it.                  *)
(***************************************************************************)
Import(file) ==
  LET head == file # <<>> /\ IsCount(file[1])
      lines == {i \in DOMAIN file : file[i] # Blank /\ ~(head /\ i = 1)}
      texts == {i \in lines : file[i] # BadUtf8}
      records == {RecordOf(file[i], i) : i \in {j \in texts : RefusalOf(file[j]) = ""}}
      first(r) == \A s \in records : s.normalized = r.normalized => r.line <= s.line
      kept == {r \in records : first(r)}
      later == {p \in kept \X (records \ kept) : p[1].normalized = p[2].normalized}
      conflicts == {p \in later : ~Same(p[1], p[2])}
      rejected == {RejectionOf(file[i], i) : i \in
                     {j \in lines : j \notin texts \/ RefusalOf(file[j]) # ""}}
  IN  [lexicon |-> kept,
       rejected |-> rejected,
       conflicts |-> {[normalized |-> p[1].normalized,
                       a |-> [word |-> p[1].word, line |-> p[1].line, flags |-> p[1].flags],
                       b |-> [word |-> p[2].word, line |-> p[2].line, flags |-> p[2].flags]] :
                        p \in conflicts},
       summary |-> [physical |-> Len(file),
                    parsed |-> Cardinality(texts),
                    accepted |-> Cardinality(kept),
                    rejected |-> Cardinality(rejected),
                    duplicates |-> Cardinality(later) - Cardinality(conflicts),
                    conflicting |-> Cardinality(conflicts),
                    mismatch |-> head /\ CountOf(file[1]) # Cardinality(texts)]]
=============================================================================
