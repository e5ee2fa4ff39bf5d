---------------------------- MODULE LexiconAudit ----------------------------
(***************************************************************************)
(* The quality audit of an imported dictionary: audit/input.rs replays the *)
(* dictionary, audit/analysis.rs compares the counts with the importer's   *)
(* and describes the records, audit/reports.rs writes the summary.         *)
(***************************************************************************)
EXTENDS HunspellImport

CONSTANTS RareEntries,  \* a letter in fewer entries is rare, 5
          Refused       \* the result of a command that fails

ByForm(records, form) == {r \in records : r.normalized = form}
Forms(records) == {r.normalized : r \in records}
FirstOf(records) == CHOOSE r \in records : \A s \in records : r.line <= s.line

\* The records of a form that are not the first, by whether they say the same.
Additional(records, form) ==
  LET group == ByForm(records, form)
  IN  {r \in group : r # FirstOf(group)}
Conflicting(records, form) ==
  {r \in Additional(records, form) : ~Same(FirstOf(ByForm(records, form)), r)}

ConflictForms(records) == {f \in Forms(records) : Conflicting(records, f) # {}}
DuplicateForms(records) ==
  {f \in Forms(records) : Additional(records, f) # {} /\ Conflicting(records, f) = {}}

(***************************************************************************)
(* cross_check: the counts of the replay, to be found in the importer's    *)
(* summary.                                                                *)
(***************************************************************************)
ReplayedCounts(replay) ==
  LET records == replay.parsed
      conflicting == UNION {Conflicting(records, f) : f \in Forms(records)}
  IN  [physical    |-> replay.physical,
       parsed      |-> Cardinality(records) + Cardinality(replay.rejected),
       accepted    |-> Cardinality(Forms(records)),
       rejected    |-> Cardinality(replay.rejected),
       duplicates  |-> Cardinality(records) - Cardinality(Forms(records))
                         - Cardinality(conflicting),
       conflicting |-> Cardinality(conflicting)]

\* Mutant: only the accepted forms are compared.
AcceptedChecked(replay, summary) ==
  LET counts == ReplayedCounts(replay)
  IN  counts.accepted = summary.accepted

CrossChecked(replay, summary) ==
  LET counts == ReplayedCounts(replay)
  IN  \A f \in DOMAIN counts : counts[f] = summary[f]

(***************************************************************************)
(* analyze_source_records.                                                 *)
(***************************************************************************)
Differences(group) ==
  {field \in {"word", "flags", "morphology", "pos"} :
     \E r \in group : r[field] # FirstOf(group)[field]}

AnalyzeSourceRecords(replay) ==
  LET records == replay.parsed
  IN  [conflict_groups |-> {[normalized |-> f, records |-> ByForm(records, f),
                             differences |-> Differences(ByForm(records, f))] :
                              f \in ConflictForms(records)},
       duplicate_groups |-> {[normalized |-> f, records |-> ByForm(records, f)] :
                              f \in DuplicateForms(records)},
       rejection_review |-> replay.rejected,
       blank_lines |-> Cardinality(replay.blank)]

(***************************************************************************)
(* analyze_accepted_records: of the lexicon the importer wrote.            *)
(***************************************************************************)
EntriesWith(records, c) == {r \in records : c \in Chars(r.normalized)}

CharacterInventory(records) ==
  LET chars == UNION {Chars(r.word) \cup Chars(r.normalized) : r \in records}
  IN  [c \in chars |-> [script |-> Script[c],
                        entries |-> Cardinality(EntriesWith(records, c))]]

ShapeAnalysis(records) ==
  LET shape == [r \in records |-> ClassifyShape(r.word, r.normalized)]
  IN  [s \in DOMAIN ClassifyShape(<<>>, <<>>) |-> Cardinality({r \in records : shape[r][s]})]

ScriptAnalysis(records) ==
  LET classes == {ClassifyScript(r.normalized) : r \in records}
  IN  [k \in classes |-> Cardinality({r \in records : ClassifyScript(r.normalized) = k})]

RareLetters(records, r) ==
  {c \in Chars(LettersOf(r.normalized)) : Cardinality(EntriesWith(records, c)) < RareEntries}

\* The reasons for which a record is suspicious.
SuspicionsOf(records, r) ==
  LET shape == ClassifyShape(r.word, r.normalized)
      one == shape.punctuation_only \/ shape.symbol_only \/ shape.digit_only
      holds == [PUNCTUATION_ONLY |-> shape.punctuation_only,
                SYMBOL_ONLY      |-> shape.symbol_only,
                DIGIT_ONLY       |-> shape.digit_only,
                NO_LETTERS       |-> shape.no_letters /\ ~one,
                MIXED_SCRIPT     |-> ClassifyScript(r.normalized) \in MixedScripts,
                VERY_LONG        |-> shape.very_long,
                RARE_CODEPOINT   |-> RareLetters(records, r) # {}]
  IN  {reason \in DOMAIN holds : holds[reason]}

\* Mutant: one entry for each record, with one of its reasons.
SuspiciousEntriesByRecord(records) ==
  {<<CHOOSE reason \in SuspicionsOf(records, r) : TRUE, r>> :
     r \in {s \in records : SuspicionsOf(records, s) # {}}}

\* One entry of the report for each reason of each record.
SuspiciousEntries(records) ==
  {e \in (UNION {SuspicionsOf(records, r) : r \in records}) \X records :
     e[1] \in SuspicionsOf(records, e[2])}

\* The manual seed against the import: the report names the seed words that are not in it.
SeedComparison(records, seed) ==
  LET forms == {NormalizeText(s) : s \in seed}
  IN  [seed_total |-> Cardinality(seed),
       overlap |-> Cardinality(forms \cap Forms(records)),
       seed_only_forms |-> forms \ Forms(records),
       hunspell_only |-> Cardinality(Forms(records) \ forms)]

\* The counts that the review queues are later compared with.
AuditSummary(imported, replay, suspicious) ==
  [suspicious_entries |-> Cardinality(suspicious),
   conflict_groups    |-> Cardinality(ConflictForms(replay.parsed)),
   rejected           |-> imported.summary.rejected,
   no_letters         |-> ShapeAnalysis(imported.lexicon).no_letters]

(***************************************************************************)
(* run_quality_audit: no report when the counts disagree.                  *)
(***************************************************************************)
AuditFails(imported, file) == ~CrossChecked(Replayed(file), imported.summary)

Audit(imported, file, seed) ==
  LET With(replay, suspicious) ==
        [suspicious |-> {<<e[2].word, e[2].normalized>> : e \in suspicious},
         source     |-> AnalyzeSourceRecords(replay),
         inventory  |-> CharacterInventory(imported.lexicon),
         shapes     |-> ShapeAnalysis(imported.lexicon),
         scripts    |-> ScriptAnalysis(imported.lexicon),
         seed       |-> SeedComparison(imported.lexicon, seed),
         summary    |-> AuditSummary(imported, replay, suspicious)]
  IN  With(Replayed(file), SuspiciousEntries(imported.lexicon))
=============================================================================
