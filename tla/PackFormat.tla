----------------------------- MODULE PackFormat -----------------------------
(***************************************************************************)
(* The binary pack, format 4: how data-builder/src/compile.rs writes it    *)
(* and how engine/src/engine.rs reads it back.                             *)
(*                                                                         *)
(* A payload is a sequence of cells, one number for each field the queries *)
(* depend on, in the order of the format; a string is the number of its    *)
(* spelling, and a number that spells nothing stands for bytes that are    *)
(* not UTF-8.  The fields no query reads (lemma, part of speech, status,   *)
(* regions, token and document counts) are left out of a cell's entry.     *)
(* The header is the sequence magic, version, language, entry count,       *)
(* payload length, checksum; a file cut short has fewer header fields, or  *)
(* a shorter payload.                                                      *)
(***************************************************************************)
EXTENDS Suggestions, Functions, Integers

CONSTANTS Spelling,             \* the words of an instance; strings are its indices
          MaxBigramPredictions, \* MAX_BIGRAM_PREDICTIONS_PER_CONTEXT, 16 in the code
          MaxTrigramPredictions,\* MAX_TRIGRAM_PREDICTIONS_PER_CONTEXT, 12 in the code
          ProbabilityScale,     \* PROBABILITY_SCALE, 1000000 in the code
          TextLimit             \* the u32 limit of the text arena, in letters

ASSUME FormatAssumption ==
  /\ Spelling \in Seq(Seq(Nat))
  /\ {MaxBigramPredictions, MaxTrigramPredictions, ProbabilityScale, TextLimit} \subseteq Nat

Spelled == Range(Spelling)

PackVersion      == 4
MinEntryCells    == 4
PredictionCells  == 3

(***************************************************************************)
(* Writing: compile_binary_pack_from_records.                              *)
(***************************************************************************)
Cell(w) == CHOOSE s \in DOMAIN Spelling : Spelling[s] = w

EntryCells(e, withFrequencies) ==
  LET sources == Ranked(e.sources, LAMBDA a, b : a < b)
  IN  <<Cell(e.word), Cell(e.normalized), Len(sources)>> \o sources
      \o <<IF withFrequencies THEN e.zipf ELSE 0>>

\* lexicon_index_map: of entries with one normalized form the last wins; from 0.
Unlisted == -1

LexiconIndex(entries, w) ==
  LET here == {i \in DOMAIN entries : entries[i].normalized = w}
  IN  IF here = {} THEN Unlisted ELSE (CHOOSE i \in here : \A j \in here : j <= i) - 1

\* What every record must satisfy, and the records must satisfy together.
RecordsAccepted(records) ==
  /\ \A r \in DOMAIN records :
       /\ records[r].contextCount > 0
       /\ records[r].count > 0
       /\ records[r].count <= records[r].contextCount
       /\ records[r].probability <= ProbabilityScale
  /\ \A r, s \in DOMAIN records :
       /\ records[r].context = records[s].context
       /\ records[r].next = records[s].next
       => r = s

PredictionLess(a, b) ==
  \/ a.probability > b.probability
  \/ a.probability = b.probability /\ a.count > b.count
  \/ a.probability = b.probability /\ a.count = b.count /\ WordLess(a.next, b.next)

\* The records every word of which is listed, grouped by the context's indices.
Group(entries, records, context) ==
  Ranked({records[r] : r \in {s \in DOMAIN records :
            /\ [i \in DOMAIN records[s].context |->
                  LexiconIndex(entries, records[s].context[i])] = context
            /\ LexiconIndex(entries, records[s].next) # Unlisted}},
         PredictionLess)

ListedContexts(entries, records) ==
  {c \in {[i \in DOMAIN records[r].context |-> LexiconIndex(entries, records[r].context[i])] :
            r \in DOMAIN records} :
     /\ \A i \in DOMAIN c : c[i] # Unlisted
     /\ Group(entries, records, c) # <<>>}

\* The predictions of a context: how many, and each of them, best first.
GroupCells(entries, group) ==
  LET upTo[k \in 0..Len(group)] ==
        IF k = 0 THEN <<Len(group)>>
        ELSE upTo[k - 1]
               \o <<LexiconIndex(entries, group[k].next), group[k].count, group[k].probability>>
  IN  upTo[Len(group)]

ContextCells(entries, records, context) ==
  context \o GroupCells(entries, Group(entries, records, context))

ContextsCells(entries, records, contexts) ==
  LET upTo[k \in 0..Len(contexts)] ==
        IF k = 0 THEN <<Len(contexts)>>
        ELSE upTo[k - 1] \o ContextCells(entries, records, contexts[k])
  IN  upTo[Len(contexts)]

\* A section: its contexts ascending, each with its predictions.
SectionCells(entries, records) ==
  ContextsCells(entries, records, Ranked(ListedContexts(entries, records), WordLess))

SectionCompiles(entries, records, maximum) ==
  /\ RecordsAccepted(records)
  /\ \A c \in ListedContexts(entries, records) :
       Len(Group(entries, records, c)) <= maximum

BigramsCompile(input)  == SectionCompiles(input.entries, input.bigrams, MaxBigramPredictions)
TrigramsCompile(input) == SectionCompiles(input.entries, input.trigrams, MaxTrigramPredictions)

Compiles(input) == BigramsCompile(input) /\ TrigramsCompile(input)

EntriesCells(entries, withFrequencies) ==
  LET upTo[k \in 0..Len(entries)] ==
        IF k = 0 THEN <<>> ELSE upTo[k - 1] \o EntryCells(entries[k], withFrequencies)
  IN  upTo[Len(entries)]

\* The checksum of a payload is modelled by the payload itself: no collisions.
Headed(count, payload) ==
  [header |-> <<"KRM1", PackVersion, "ku-Latn", count, Len(payload), payload>>,
   payload |-> payload]

CompiledPack(input) ==
  Headed(Len(input.entries),
         EntriesCells(input.entries, input.withFrequencies)
           \o SectionCells(input.entries, input.bigrams)
           \o SectionCells(input.entries, input.trigrams))

(***************************************************************************)
(* Reading.  A reading is how far the payload has been read, what was      *)
(* found, and the error that ended it.                                     *)
(***************************************************************************)
NoFault == "none"
Failed(r, fault) == [r EXCEPT !.fault = fault]
Found(r, at, item) == [at |-> at, got |-> Append(r.got, item), fault |-> NoFault]

\* n items read one after the other, stopping at the first error.
Repeat(n, at, Item(_)) ==
  LET read[k \in 0..n] ==
        IF k = 0 THEN [at |-> at, got |-> <<>>, fault |-> NoFault]
        ELSE LET before == read[k - 1]
             IN  IF before.fault = NoFault THEN Item(before) ELSE before
  IN  read[n]

\* LexiconStoreBuilder::push_text: a form equal to the word is stored once.
TextOf(entries) ==
  LET upTo[k \in 0..Len(entries)] ==
        IF k = 0 THEN 0
        ELSE upTo[k - 1] + Len(entries[k].word)
             + (IF entries[k].normalized = entries[k].word THEN 0
                ELSE Len(entries[k].normalized))
  IN  upTo[Len(entries)]

ReadEntry(p, r) ==
  LET at == r.at
      after == at + 3 + p[at + 3]
      entry == [word       |-> Spelling[p[at + 1]],
                normalized |-> Spelling[p[at + 2]],
                sources    |-> SubSeq(p, at + 4, after),
                zipf       |-> p[after + 1]]
  IN  IF \E k \in {at + 1, at + 2} : k <= Len(p) /\ p[k] \notin DOMAIN Spelling
      THEN Failed(r, "InvalidPayload")
      ELSE IF Len(p) < at + 3 \/ Len(p) <= after THEN Failed(r, "TruncatedPayload")
      ELSE IF TextOf(Append(r.got, entry)) > TextLimit THEN Failed(r, "InvalidPayload")
      ELSE Found(r, after + 1, entry)

ReadPredictionPastEnd(p, n, r) ==
  IF Len(p) < r.at + PredictionCells THEN Failed(r, "TruncatedPayload")
  ELSE IF \/ p[r.at + 1] > n
          \/ \E k \in DOMAIN r.got : r.got[k].next = p[r.at + 1] + 1
          \/ p[r.at + 2] = 0
          \/ p[r.at + 3] > ProbabilityScale
  THEN Failed(r, "InvalidPayload")
  ELSE Found(r, r.at + PredictionCells,
             [next |-> p[r.at + 1] + 1, count |-> p[r.at + 2], probability |-> p[r.at + 3]])

\* n is the number of entries: every index must be below it.
ReadPrediction(p, n, r) ==
  LET next == p[r.at + 1]
      count == p[r.at + 2]
      probability == p[r.at + 3]
  IN  IF Len(p) < r.at + PredictionCells THEN Failed(r, "TruncatedPayload")
      ELSE IF \/ next >= n
              \/ \E k \in DOMAIN r.got : r.got[k].next = next + 1
              \/ count = 0
              \/ probability > ProbabilityScale
      THEN Failed(r, "InvalidPayload")
      ELSE Found(r, r.at + PredictionCells,
                 [next |-> next + 1, count |-> count, probability |-> probability])

\* A context of width indices, its number of predictions, and these.
ReadContext(p, n, width, maximum, r) ==
  LET cells == SubSeq(p, r.at + 1, r.at + width)
      context == [i \in DOMAIN cells |-> cells[i] + 1]
      count == p[r.at + width + 1]
      With(predictions) ==
        IF predictions.fault # NoFault THEN Failed(r, predictions.fault)
        ELSE Found(r, predictions.at, [context |-> context, predictions |-> predictions.got])
  IN  IF Len(p) < r.at + width + 1 THEN Failed(r, "TruncatedPayload")
      ELSE IF \/ \E i \in DOMAIN cells : cells[i] >= n
              \/ \E k \in DOMAIN r.got : r.got[k].context = context
              \/ count = 0
              \/ count > maximum
      THEN Failed(r, "InvalidPayload")
      ELSE With(Repeat(count, r.at + width + 1, LAMBDA q : ReadPrediction(p, n, q)))

ReadBigramContext(p, n, r)  == ReadContext(p, n, 1, MaxBigramPredictions, r)
ReadTrigramContext(p, n, r) == ReadContext(p, n, 2, MaxTrigramPredictions, r)

\* A section must not claim more contexts than can exist or than can still follow.
ReadSection(p, possible, width, at, Context(_)) ==
  LET nothing == [at |-> at, got |-> <<>>, fault |-> NoFault]
      count == p[at + 1]
  IN  IF Len(p) <= at THEN Failed(nothing, "TruncatedPayload")
      ELSE IF \/ count > possible
              \/ count > (Len(p) - (at + 1)) \div (width + 1 + PredictionCells)
      THEN Failed(nothing, "InvalidPayload")
      ELSE Repeat(count, at + 1, Context)

BigramSection(p, n, at) ==
  ReadSection(p, n, 1, at, LAMBDA r : ReadBigramContext(p, n, r))

TrigramSection(p, n, at) ==
  ReadSection(p, n * n, 2, at, LAMBDA r : ReadTrigramContext(p, n, r))

SectionIndex(section) ==
  [c \in {section[k].context : k \in DOMAIN section} |->
     LET k == CHOOSE k \in DOMAIN section : section[k].context = c
     IN  section[k].predictions]

\* The whole payload: entries, bigrams, trigrams, and nothing after them.
ReadPayload(p, count) ==
  LET nothing == [at |-> 0, got |-> <<>>, fault |-> NoFault]
      End(entries, bigrams, trigrams) ==
        IF trigrams.fault # NoFault THEN [fault |-> trigrams.fault]
        ELSE IF trigrams.at # Len(p) THEN [fault |-> "InvalidPayload"]
        ELSE [fault |-> NoFault, lexicon |-> entries.got,
              bigrams |-> SectionIndex(bigrams.got), trigrams |-> SectionIndex(trigrams.got)]
      Trigrams(entries, bigrams) ==
        End(entries, bigrams, IF bigrams.fault # NoFault THEN bigrams
                              ELSE TrigramSection(p, count, bigrams.at))
      Bigrams(entries) ==
        Trigrams(entries, IF entries.fault # NoFault THEN entries
                          ELSE BigramSection(p, count, entries.at))
  IN  Bigrams(IF count > Len(p) \div MinEntryCells THEN Failed(nothing, "InvalidPayload")
              ELSE Repeat(count, 0, LAMBDA r : ReadEntry(p, r)))

CutTag == "cut"     \* a language tag the file ends in the middle of

\* The checks of the header, in the order the loader makes them.
HeaderFault(pack) ==
  LET h == pack.header
  IN  IF Len(h) <= 2 THEN "TooShort"
      ELSE IF h[1] # "KRM1" THEN "InvalidMagicBytes"
      ELSE IF h[2] # PackVersion THEN "UnsupportedVersion"
      ELSE IF h[3] = CutTag THEN "TruncatedPayload"
      ELSE IF h[3] # "ku-Latn" THEN "IncompatibleLanguage"
      ELSE IF Len(h) < 6 THEN "TruncatedPayload"
      ELSE IF h[5] # Len(pack.payload) THEN "InvalidPayload"
      ELSE IF h[6] # pack.payload THEN "ChecksumMismatch"
      ELSE NoFault

Decoded(pack) ==
  LET header == HeaderFault(pack)
  IN  IF header # NoFault THEN [fault |-> header]
      ELSE ReadPayload(pack.payload, pack.header[4])

ProbeSchemaOnly(pack) ==
  LET h == pack.header
  IN  IF Len(h) <= 2 \/ h[1] # "KRM1" \/ h[3] = CutTag \/ Len(h) < 5 THEN "not a pack"
      ELSE IF h[2] = PackVersion THEN "supported" ELSE "unsupported"

\* probe_pack_header: what the header declares, whether or not it can be loaded.
Probe(pack) ==
  LET h == pack.header
  IN  IF Len(h) <= 2 \/ h[1] # "KRM1" \/ h[3] = CutTag \/ Len(h) < 5 THEN "not a pack"
      ELSE IF h[2] = PackVersion /\ h[3] = "ku-Latn" THEN "supported" ELSE "unsupported"

\* PackLoadError::failure_class.
FailureClass(fault) ==
  CASE fault \in {"TooShort", "TruncatedPayload"} -> "Truncated"
    [] fault = "UnsupportedVersion" -> "UnsupportedSchema"
    [] fault = "IncompatibleLanguage" -> "WrongLanguage"
    [] fault \in {"InvalidMagicBytes", "ChecksumMismatch", "InvalidPayload"} -> "Corrupt"
=============================================================================
