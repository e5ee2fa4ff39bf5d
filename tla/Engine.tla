------------------------------- MODULE Engine -------------------------------
(***************************************************************************)
(* The engine of engine/src/engine.rs: it is filled from binary packs,     *)
(* which replace everything, and from lexicon entries, which are appended, *)
(* and answers queries from what it holds.  The trie and the query index   *)
(* are copies of the lexicon in other shapes and are replaced with it; the *)
(* prediction indexes hold positions of the lexicon and stay when entries  *)
(* are appended.                                                           *)
(*                                                                         *)
(* A pack file is what the compiler wrote, or that with one thing wrong.   *)
(***************************************************************************)
EXTENDS PackFormat

CONSTANTS Inputs,       \* what packs are compiled from
          NoInput,      \* no undamaged pack was loaded
          Batches,      \* the lists of entries appended
          Queries,      \* the texts asked for
          CellValues,   \* what a damaged cell may hold
          MaxResults,   \* MAX_RESULT_LIMIT of api.rs, 50 in the code
          MaxLoads      \* bound: loads of an instance

\* The limit of an answer is not below that of a context: 50, and 16 or 12, in the code.
ASSUME BoundsAssumption ==
  /\ MaxResults \in Nat \ {0} /\ MaxLoads \in Nat
  /\ MaxBigramPredictions <= MaxResults /\ MaxTrigramPredictions <= MaxResults
  /\ CellValues \subseteq Nat /\ Queries \subseteq Seq(Nat)

\* Records as the readers of the compiler make them: words of UTF-8, unsigned numbers.
RecordType(record, width) ==
  /\ record.context \in [1..width -> Spelled] /\ record.next \in Spelled
  /\ record.count \in Nat /\ record.contextCount \in Nat /\ record.probability \in Nat

EntryType(entry) ==
  entry.word \in Spelled /\ entry.normalized \in Spelled /\ entry.zipf \in Nat

\* A text that is normalized is its own normalization.
ASSUME QueriesAssumption == \A q \in Queries : Normalize(Normalize(q)) = Normalize(q)

\* Two spellings of a word that differ in case only have one normal form.
ASSUME CaseAssumption == \A w \in Spelled : Normalize(ToLowerCase(w)) = Normalize(w)

ASSUME InputsAssumption ==
  /\ NoInput \notin Inputs
  /\ \A input \in Inputs :
       /\ \A records \in {input.entries, input.bigrams, input.trigrams} :
            records \in Seq(Range(records))
       /\ \A e \in Range(input.entries) :
            EntryType(e) /\ IsFiniteSet(e.sources) /\ e.sources \subseteq Nat
       /\ \A r \in Range(input.bigrams) : RecordType(r, 1)
       /\ \A r \in Range(input.trigrams) : RecordType(r, 2)
  /\ \A entries \in Batches :
       entries \in Seq(Range(entries)) /\ \A e \in Range(entries) : EntryType(e)

VARIABLES engine,   \* lexicon, trie, index, bigrams, trigrams
          built,    \* history: the input of the pack loaded last, if undamaged
          report,   \* what the last load said, and what probing its file says
          loads

vars == <<engine, built, report, loads>>

EmptyEngine == [lexicon |-> <<>>, trie |-> EmptyTrie, index |-> EmptyIndex,
                bigrams |-> [c \in {} |-> 0], trigrams |-> [c \in {} |-> 0]]

LexiconTrie(lexicon) ==
  TrieOf([i \in DOMAIN lexicon |-> [word |-> lexicon[i].normalized, value |-> lexicon[i].zipf]])

(***************************************************************************)
(* Files.                                                                  *)
(***************************************************************************)
Cut(s) == SubSeq(s, 1, Len(s) - 1)

\* Damage to the file as it is: cut, overwritten, or made by another program.
Broken(pack) ==
  LET h == pack.header
      p == pack.payload
  IN  {[pack EXCEPT !.payload = Cut(p)],
       [pack EXCEPT !.payload = Append(p, 0)],
       [pack EXCEPT !.payload[Len(p)] = p[Len(p)] + 1],
       [pack EXCEPT !.header[1] = "ELF"],
       [pack EXCEPT !.header[2] = PackVersion + 1],
       [pack EXCEPT !.header[3] = "ku-Arab"],
       [header |-> <<h[1], h[2], CutTag>>, payload |-> <<>>]}
      \cup {[header |-> SubSeq(h, 1, k), payload |-> <<>>] : k \in 2..5}

\* A payload with one field changed, cut or too long, under a header made for it.
Resealed(pack) ==
  LET p == pack.payload
      n == pack.header[4]
  IN  {Headed(n, [p EXCEPT ![k] = v]) :
         k \in DOMAIN p, v \in CellValues}
      \cup {Headed(n, Cut(p)), Headed(n, Append(p, 0))}
      \cup {Headed(count, p) : count \in {n - 1, n + 1} \cap Nat}

(***************************************************************************)
(* Loading.                                                                *)
(***************************************************************************)
Report(class, probe) == [class |-> class, probe |-> probe]

Init ==
  /\ engine = EmptyEngine
  /\ built = NoInput
  /\ report = Report("None", "none")
  /\ loads = 0

\* Everything is decoded and built first; the engine changes only at the end.
LoadBinaryPack(pack, input) ==
  LET Install(decoded) ==
        IF decoded.fault # NoFault
        THEN /\ report' = Report(FailureClass(decoded.fault), Probe(pack))
             /\ UNCHANGED <<engine, built>>
        ELSE /\ report' = Report("Loaded", Probe(pack))
             /\ engine' = [lexicon  |-> decoded.lexicon,
                           trie     |-> LexiconTrie(decoded.lexicon),
                           index    |-> IndexOf(decoded.lexicon),
                           bigrams  |-> decoded.bigrams,
                           trigrams |-> decoded.trigrams]
             /\ built' = input
  IN  Install(Decoded(pack))

LoadIntact ==
  /\ loads < MaxLoads
  /\ \E input \in Inputs : Compiles(input) /\ LoadBinaryPack(CompiledPack(input), input)
  /\ loads' = loads + 1

LoadDamaged ==
  LET Damage(whole) ==
        \E pack \in Broken(whole) \cup Resealed(whole) :
          pack # whole /\ LoadBinaryPack(pack, NoInput)
  IN  /\ loads < MaxLoads
      /\ \E input \in Inputs : Compiles(input) /\ Damage(CompiledPack(input))
      /\ loads' = loads + 1

LoadLexiconUnlimited(entries) ==
  LET Install(lexicon) ==
        engine' = [engine EXCEPT !.lexicon = lexicon,
                                 !.trie = LexiconTrie(lexicon),
                                 !.index = IndexOf(lexicon)]
  IN  /\ loads < MaxLoads
      /\ loads' = loads + 1
      /\ report' = Report("Loaded", "none")
      /\ Install(engine.lexicon \o entries)
      /\ UNCHANGED built

\* load_lexicon: append, rebuild trie and index, keep the predictions; a lexicon
\* over the representation's limit panics before anything is assigned.
LoadLexicon(entries) ==
  LET Install(lexicon) ==
        IF TextOf(lexicon) > TextLimit
        THEN report' = Report("Panic", "none") /\ UNCHANGED engine
        ELSE /\ report' = Report("Loaded", "none")
             /\ engine' = [engine EXCEPT !.lexicon = lexicon,
                                         !.trie = LexiconTrie(lexicon),
                                         !.index = IndexOf(lexicon)]
  IN  /\ loads < MaxLoads
      /\ loads' = loads + 1
      /\ Install(engine.lexicon \o entries)
      /\ UNCHANGED built

Next ==
  \/ LoadIntact
  \/ LoadDamaged
  \/ \E entries \in Batches : LoadLexicon(entries)

Spec == Init /\ [][Next]_vars

(***************************************************************************)
(* Queries, with the limit of api.rs.                                      *)
(***************************************************************************)
Clamp(limit) == IF limit > MaxResults THEN MaxResults ELSE limit

Known(e, text) == Contains(e.trie, Normalize(text))

\* find_lexicon_index: the first entry with this normalized form.
FindLexiconIndex(e, w) ==
  IF w = <<>> THEN NotFound ELSE FindNormalized(e.index, e.lexicon, w)

Told(e, predictions, limit) ==
  [k \in 1..(IF Len(predictions) < limit THEN Len(predictions) ELSE limit) |->
     [word |-> e.lexicon[predictions[k].next].word,
      count |-> predictions[k].count,
      probability |-> predictions[k].probability]]

NextAfter(e, source, index, context, limit) ==
  [source |-> source,
   predictions |-> IF context \in DOMAIN index THEN Told(e, index[context], limit) ELSE <<>>]

PredictNext(e, previous, limit) ==
  NextAfter(e, "Bigram", e.bigrams, <<FindLexiconIndex(e, Normalize(previous))>>, limit)

BackOff(e, context, i1, limit) ==
  IF context \in DOMAIN e.trigrams
  THEN NextAfter(e, "Trigram", e.trigrams, context, limit)
  ELSE NextAfter(e, IF <<i1>> \in DOMAIN e.bigrams THEN "BigramBackoff" ELSE "None",
                 e.bigrams, <<i1>>, limit)

PredictNextWithSwappedContext(e, previous2, previous1, limit) ==
  LET From(i2, i1) == BackOff(e, <<i1, i2>>, i1, limit)
  IN  From(FindLexiconIndex(e, Normalize(previous2)), FindLexiconIndex(e, Normalize(previous1)))

\* Two words of context if they are known together, else the last one; NotFound is
\* in no context.
PredictNextWithContext(e, previous2, previous1, limit) ==
  LET From(i2, i1) == BackOff(e, <<i2, i1>>, i1, limit)
  IN  From(FindLexiconIndex(e, Normalize(previous2)), FindLexiconIndex(e, Normalize(previous1)))

\* predict_next of the API: of the context, its last two words, or its only one.
ApiPredictNext(e, context, limit) ==
  LET n == Len(context)
      kept == Clamp(limit)
  IN  IF kept = 0 \/ n = 0 THEN [source |-> "None", predictions |-> <<>>]
      ELSE IF n = 1 THEN PredictNext(e, Normalize(context[1]), kept)
      ELSE PredictNextWithContext(e, Normalize(context[n - 1]), Normalize(context[n]), kept)

Suggest(e, text, limit, useFrequency) ==
  Finish(IndexedCandidates(e.lexicon, e.trie, e.index, text, useFrequency),
         text, Clamp(limit), useFrequency)

(***************************************************************************)
(* Properties.                                                             *)
(***************************************************************************)
Settled == report.class \in {"None", "Loaded"}

\* Every structure has its shape, and every load so far fits the limits.
TypeOK ==
  /\ DOMAIN engine = {"lexicon", "trie", "index", "bigrams", "trigrams"}
  /\ \A i \in DOMAIN engine.lexicon :
       /\ engine.lexicon[i].word \in Spelled
       /\ engine.lexicon[i].normalized \in Spelled
  /\ TextOf(engine.lexicon) <= TextLimit
  /\ built \in Inputs \cup {NoInput}
  /\ report.class \in {"None", "Loaded", "Panic", "Truncated", "UnsupportedSchema",
                       "WrongLanguage", "Corrupt"}
  /\ report.probe \in {"none", "not a pack", "supported", "unsupported"}
  /\ loads \in 0..MaxLoads

\* The index loses no candidate: the production path finds, with the same cost,
\* kind and word, exactly what the scan of the whole lexicon finds (index.rs proves
\* the radius on paper; suggest_with_config relies on it).
IndexAnswersAsScan ==
  Settled => \A q \in Queries, f \in BOOLEAN :
    IndexedCandidates(engine.lexicon, engine.trie, engine.index, q, f)
      = ScannedCandidates(engine.lexicon, engine.trie, q, f)

\* The flat arrays of the trie hold the words of the lexicon and no other: membership,
\* prefix search in word order, and children sorted as the binary search needs them.
TrieIsItsLexicon ==
  LET words == {engine.lexicon[i].normalized : i \in DOMAIN engine.lexicon}
      Under(prefix) == Ranked({w \in words : StartsWith(w, prefix)}, WordLess)
      t == engine.trie
  IN  Settled =>
        /\ \A s \in DOMAIN Spelling :
             LET Right(hits) == [k \in DOMAIN hits |-> hits[k].word] = Under(Spelling[s])
             IN  /\ Contains(t, Spelling[s]) <=> Spelling[s] \in words
                 /\ Right(FindByPrefix(t, Spelling[s]))
        /\ \A node \in DOMAIN t.label : \A a, b \in Children(t, node) :
             a < b => t.label[a] < t.label[b]

\* The trie search with its pruned, reused rows finds exactly the stripped forms
\* within the radius, by the distance computed word by word.
FuzzySearchIsExact ==
  Settled => \A q \in Queries :
    LET Right(near) ==
          {near[k] : k \in DOMAIN near}
            = {i \in DOMAIN engine.lexicon :
                 UnitDistance(StripDiacritics(engine.lexicon[i].normalized), StripDiacritics(q))
                   <= MaxStrippedUnitDistance}
    IN  Right(NearPositions(engine.index, StripDiacritics(q), MaxStrippedUnitDistance))

\* What is answered does not depend on the order of the candidates' hash map: they are
\* totally ordered, and no text is suggested twice (finish_suggestions claims both).
AnswersAreDetermined ==
  (Settled /\ \A i \in DOMAIN engine.lexicon :
                engine.lexicon[i].normalized = Normalize(engine.lexicon[i].word)) =>
    \A q \in Queries, f \in BOOLEAN :
      LET Total(found) ==
            \A v, w \in DOMAIN found :
              v # w => (CandidateLess(found[v], found[w], f) <=> ~CandidateLess(found[w], found[v], f))
          Distinct(answer) ==
            \A i, j \in DOMAIN answer : i # j => answer[i].text # answer[j].text
      IN  /\ Total(IndexedCandidates(engine.lexicon, engine.trie, engine.index, q, f))
          /\ Distinct(Suggest(engine, q, MaxResults, f))

\* No prediction names a position outside the lexicon, whatever was in the file and
\* whatever was appended since, and none is told twice.
PredictionsNameWords ==
  LET Sound(index, width, maximum) ==
        \A c \in DOMAIN index :
          /\ Len(c) = width /\ \A i \in DOMAIN c : c[i] \in DOMAIN engine.lexicon
          /\ Len(index[c]) \in 1..maximum
          /\ \A k, l \in DOMAIN index[c] :
               /\ index[c][k].next \in DOMAIN engine.lexicon
               /\ index[c][k].next = index[c][l].next => k = l
  IN  /\ Sound(engine.bigrams, 1, MaxBigramPredictions)
      /\ Sound(engine.trigrams, 2, MaxTrigramPredictions)

\* The records of a context that name only entries.
RecordsOf(entries, records, context) ==
  LET forms == {entries[i].normalized : i \in DOMAIN entries}
  IN  {r \in DOMAIN records : /\ records[r].context = context /\ records[r].next \in forms
                              /\ \A i \in DOMAIN context : context[i] \in forms}

\* What is told of a record: the word of the entry with its form.
ToldOf(entries, record) ==
  [word |-> entries[CHOOSE i \in DOMAIN entries : entries[i].normalized = record.next].word,
   count |-> record.count, probability |-> record.probability]

\* An answer tells the records of a context, each one once, most probable first.
Tells(answer, source, entries, records, context) ==
  LET chosen == RecordsOf(entries, records, context)
      told == answer.predictions
  IN  /\ chosen # {} => answer.source = source
      /\ {told[k] : k \in DOMAIN told} = {ToldOf(entries, records[r]) : r \in chosen}
      /\ Len(told) = Cardinality(chosen)
      /\ \A k, l \in DOMAIN told : k < l => told[k].probability >= told[l].probability

\* The records a pack was compiled from are what the engine predicts: the trigrams of
\* the last two words if there are any, else the bigrams of the last one, most probable
\* first.  It needs normalized forms that are unique, as collisions.rs leaves them: the
\* compiler numbers a form by its last entry, the engine looks up its first.  An empty
\* form is compiled like any other and never looked up (find_lexicon_index).
CompiledIsPredicted ==
  LET entries == built.entries
      Unique == \A i, j \in DOMAIN entries :
                  entries[i].normalized = entries[j].normalized => i = j
      Asked == {w \in Spelled : w # <<>> /\ Normalize(w) = w}
      Backed(answer, context, last) ==
        IF RecordsOf(entries, built.trigrams, context) # {}
        THEN Tells(answer, "Trigram", entries, built.trigrams, context)
        ELSE Tells(answer, "BigramBackoff", entries, built.bigrams, last)
  IN  built # NoInput => (Unique => \A v, w \in Asked :
        /\ Tells(ApiPredictNext(engine, <<w>>, MaxResults), "Bigram", entries, built.bigrams, <<w>>)
        /\ Backed(ApiPredictNext(engine, <<w, v, w>>, MaxResults), <<v, w>>, <<w>>))

\* Probing a file tells why loading it will fail: a schema or language this engine
\* does not load is reported as unsupported, and nothing else is.
ProbeExplainsRefusal ==
  report.probe # "none" =>
    /\ report.probe = "unsupported" <=> report.class \in {"UnsupportedSchema", "WrongLanguage"}
    /\ report.class = "Loaded" => report.probe = "supported"

\* Appending entries changes no prediction, not even for a word appended again.
AppendKeepsPredictions ==
  [][\A entries \in Batches : LoadLexicon(entries) =>
       \A q \in Queries, r \in Queries :
         /\ PredictNext(engine, q, MaxResults)
              = PredictNext(engine', q, MaxResults)
         /\ PredictNextWithContext(engine, r, q, MaxResults)
              = PredictNextWithContext(engine', r, q, MaxResults)]_vars
=============================================================================
