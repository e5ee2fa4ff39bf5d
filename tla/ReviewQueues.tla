---------------------------- MODULE ReviewQueues ----------------------------
(***************************************************************************)
(* The review queues made from a dictionary, its import and its audit:     *)
(* review/queues.rs, with the identifiers of review/schema.rs.             *)
(*                                                                         *)
(* A target identifier is a hash of length-prefixed fields; it is modelled *)
(* by the fields.                                                          *)
(***************************************************************************)
EXTENDS LexiconAudit

CONSTANTS ShortForm,      \* graphemes of the longest short form, 1
          LongForm,       \* graphemes of the shortest long form, 25
          NoPos           \* a record without a part of speech

BagOfSeq(s) == [x \in Chars(s) |-> Cardinality({i \in DOMAIN s : s[i] = x})]

\* Mutant: the flags are left out of the hash.
EntryIdWithoutFlags(origin, display, normalized, flags, morphology) ==
  [origin |-> origin, display |-> Compose(display),
   normalized |-> NormalizeText(normalized), flags |-> <<>>,
   morphology |-> BagOfSeq(morphology)]

\* compute_entry_id, of an entry of a source in a revision: the order of the morphology tags does not matter.
EntryId(origin, display, normalized, flags, morphology) ==
  [origin |-> origin, display |-> Compose(display),
   normalized |-> NormalizeText(normalized), flags |-> flags,
   morphology |-> BagOfSeq(morphology)]

Hunspell(revision) == <<"kurdish-hunspell-kmr", revision>>
RecordId(revision, r) == EntryId(Hunspell(revision), r.word, r.normalized, r.flags, r.morphology)

\* compute_conflict_group_id: of the identifiers of all members, equal ones counted.
GroupId(normalized, ids) ==
  [normalized |-> NormalizeText(normalized),
   members |-> [id \in {m.id : m \in ids} |-> Cardinality({m \in ids : m.id = id})]]

(***************************************************************************)
(* The conflict groups of the importer's report, the members looked up by  *)
(* line number in the dictionary.                                          *)
(***************************************************************************)
ConflictLines(conflicts, form) ==
  UNION {{c.a.line, c.b.line} : c \in {d \in conflicts : d.normalized = form}}

\* Mutant: the lines are counted from zero.
GroupMembersFromZero(revision, parsed, lines) ==
  {[id |-> RecordId(revision, r), line |-> r.line, display |-> r.word,
    normalized |-> r.normalized, flags |-> r.flags,
    morphology |-> r.morphology, pos |-> r.pos] : r \in {s \in parsed : s.line - 1 \in lines}}

GroupMembers(revision, parsed, lines) ==
  {[id |-> RecordId(revision, r), line |-> r.line, display |-> r.word,
    normalized |-> r.normalized, flags |-> r.flags,
    morphology |-> r.morphology, pos |-> r.pos] : r \in {s \in parsed : s.line \in lines}}

ConflictGroup(revision, parsed, conflicts, form) ==
  LET members == GroupMembers(revision, parsed, ConflictLines(conflicts, form))
      differing(field) == Cardinality({m[field] : m \in members}) > 1
  IN  [target |-> GroupId(form, members), normalized |-> form, members |-> members,
       differing |-> {field \in {"flags", "morphology", "pos"} : differing(field)}]

MembersFound(parsed, conflicts) ==
  \A c \in conflicts : {c.a.line, c.b.line} \subseteq {r.line : r \in parsed}

(***************************************************************************)
(* The queues of one record of the imported lexicon.                       *)
(***************************************************************************)
\* The report of the seed comparison is read with a default for the list of seed words.
SeedWords(audit) == IF "seed_words" \in DOMAIN audit.seed THEN audit.seed.seed_words ELSE {}

RareChars(audit) ==
  {c \in DOMAIN audit.inventory : audit.inventory[c].entries \in 1..(RareEntries - 1)}
UnexpectedChars(audit) ==
  {c \in DOMAIN audit.inventory :
     audit.inventory[c].script \notin {"Latin", "Common", "Inherited"}}

QueuesOf(r, audit) ==
  LET shape == ClassifyShape(r.word, r.normalized)
      script == ClassifyScript(r.word)
      chars == Chars(r.normalized)
      one == shape.punctuation_only \/ shape.symbol_only \/ shape.digit_only
      length == Len(r.normalized)
      holds ==
        [suspicious       |-> <<r.word, r.normalized>> \in audit.suspicious,
         unusual_script   |-> script \in UnusualScripts,
         mixed_script     |-> script \in MixedScripts,
         punctuation_only |-> shape.punctuation_only,
         symbol_only      |-> shape.symbol_only,
         digit_only       |-> shape.digit_only,
         no_letter        |-> shape.no_letters /\ ~one,
         capitalization   |-> shape.uppercase_only \/ shape.mixed_case,
         multiword        |-> shape.multiword,
         rare_code_point  |-> chars \cap RareChars(audit) # {},
         unexpected_code_point |-> chars \cap UnexpectedChars(audit) # {},
         short_or_long    |-> length <= ShortForm \/ length >= LongForm,
         alphabet_policy_excluded |-> ~Eligible(r.normalized),
         punctuation_held |-> Eligible(r.normalized) /\ Held(r.normalized),
         hunspell_only    |-> /\ Eligible(r.normalized) /\ ~Held(r.normalized)
                              /\ r.normalized \notin SeedWords(audit)]
  IN  {queue \in DOMAIN holds : holds[queue]}

EntryQueues ==
  {"suspicious", "unusual_script", "mixed_script", "punctuation_only", "symbol_only",
   "digit_only", "no_letter", "capitalization", "multiword", "rare_code_point",
   "unexpected_code_point", "short_or_long", "alphabet_policy_excluded",
   "punctuation_held", "hunspell_only"}

\* What the policies say of a form; the alphabet comes first.
PolicyAction(form, action) ==
  IF ~Eligible(form) THEN "excluded_by_alphabet_policy"
  ELSE IF Held(form) THEN "needs_linguist" ELSE action

\* The other forms, imported or of the seed, that are this one but for its punctuation.
PossibleDuplicates(form, lexicon, audit) ==
  {other \in (Forms(lexicon) \cup SeedWords(audit)) \ {form} :
     PunctuationStrippedForm(other) = PunctuationStrippedForm(form)}

QueueRecord(revision, queue, r, lexicon, audit) ==
  [target |-> RecordId(revision, r), display |-> r.word, normalized |-> r.normalized,
   flags |-> r.flags, morphology |-> r.morphology, pos |-> r.pos, line |-> r.line,
   action |-> PolicyAction(r.normalized,
                           IF queue = "hunspell_only" THEN "retain" ELSE "manual_review"),
   duplicates |-> IF queue = "punctuation_held"
                  THEN PossibleDuplicates(r.normalized, lexicon, audit) ELSE {}]

\* A refused line is a target too: its text, without flags or morphology.
RejectionRecord(revision, rejection) ==
  [target |-> EntryId(Hunspell(revision), rejection.raw, rejection.raw, <<>>, <<>>),
   display |-> rejection.raw, normalized |-> rejection.raw,
   flags |-> <<>>, morphology |-> <<>>, pos |-> NoPos,
   action |-> "investigate_source_or_parser", duplicates |-> {}, line |-> rejection.line]

(***************************************************************************)
(* generate_review_queues: the queues, and whether they are refused: a     *)
(* line of a conflict is not in the dictionary, two records have the same  *)
(* identifier, or the counts are not those of the audit.                   *)
(***************************************************************************)
GenerateQueues(revision, file, reports, audit) ==
  LET With(queuesOf) ==
        [groups |-> {ConflictGroup(revision, Replayed(file).parsed, reports.conflicts,
                                   c.normalized) : c \in reports.conflicts},
         rejections |-> {RejectionRecord(revision, j) : j \in reports.rejected},
         entries |-> [queue \in EntryQueues |->
                        {QueueRecord(revision, queue, r, reports.lexicon, audit) :
                           r \in {s \in reports.lexicon : queue \in queuesOf[s]}}]]
  IN  With([r \in reports.lexicon |-> QueuesOf(r, audit)])

CountsAgree(queues, summary) ==
  LET count(queue) == Cardinality(queues.entries[queue])
  IN  /\ count("suspicious") = summary.suspicious_entries
      /\ Cardinality(queues.groups) = summary.conflict_groups
      /\ Cardinality(queues.rejections) = summary.rejected
      /\ count("punctuation_only") + count("symbol_only") + count("digit_only")
           + count("no_letter") = summary.no_letters

QueuesFail(revision, file, reports, audit) ==
  \/ ~MembersFound(Replayed(file).parsed, reports.conflicts)
  \/ Cardinality({RecordId(revision, r) : r \in reports.lexicon})
       < Cardinality(reports.lexicon)
  \/ ~CountsAgree(GenerateQueues(revision, file, reports, audit), audit.summary)
=============================================================================
