-------------------------- MODULE ReviewDecisions --------------------------
(***************************************************************************)
(* Human decisions on review targets: the rules of review/schema.rs for a  *)
(* record of decisions.jsonl, and review/merger.rs, which checks the file  *)
(* against the queues and sorts it into the review report.                 *)
(***************************************************************************)
EXTENDS ReviewQueues, Functions

CONSTANT None   \* a field that is absent

Statuses == {"Unreviewed", "Approved", "ApprovedWithMetadataChange",
             "RejectedFromDefaultPack", "ExperimentalOnly", "NeedsLinguist",
             "NeedsSourceInvestigation"}

\* validate_review_date: of a year, a month and a day.
LeapYear(y) == (y % 4 = 0 /\ y % 100 # 0) \/ y % 400 = 0
DaysIn(y, m) == IF m = 2 THEN IF LeapYear(y) THEN 29 ELSE 28
                ELSE IF m \in {4, 6, 9, 11} THEN 30 ELSE 31
ValidReviewDate(d) ==
  d[1] \in 2000..2100 /\ d[2] \in 1..12 /\ d[3] \in 1..DaysIn(d[1], d[2])

\* validate_entry: what may enter the default vocabulary.
ValidEntry(display, normalized) ==
  /\ display # <<>>
  /\ Len(normalized) \in 1..MaxWord
  /\ Chars(display) \cap Forbidden = {}
  /\ Eligible(normalized)
  /\ ~Held(normalized)

ValidReplacement(r) ==
  /\ r.display # <<>>
  /\ r.normalized = NormalizeText(r.display)
  /\ ValidEntry(r.display, r.normalized)

(***************************************************************************)
(* validate_decision_record.                                               *)
(***************************************************************************)
Attributed(d) ==
  IF d.status = "Unreviewed"
  THEN d.reviewer = None /\ d.date = None /\ ~d.notes /\ d.replacement = None
  ELSE d.reviewer # None /\ d.date # None /\ ValidReviewDate(d.date)

GroupRules(d) ==
  d.type = "conflict_group" =>
    /\ d.status # "ApprovedWithMetadataChange"
    /\ d.replacement = None
    /\ d.status = "Approved" => d.resolution # None

ValidDecision(d) ==
  /\ Attributed(d)
  /\ GroupRules(d)
  /\ d.replacement # None => d.status = "ApprovedWithMetadataChange"
  /\ d.status = "ApprovedWithMetadataChange" =>
       d.replacement # None /\ ValidReplacement(d.replacement)
  /\ d.status = "RejectedFromDefaultPack" => d.notes \/ d.evidence

(***************************************************************************)
(* The targets the queues offer.                                           *)
(***************************************************************************)
EntryRecords(queues) == queues.rejections \cup UNION Range(queues.entries)

TargetsOf(queues) ==
  {<<"entry", e.target>> : e \in EntryRecords(queues)}
    \cup {<<"conflict_group", g.target>> : g \in queues.groups}

Targeted(d) == <<d.type, d.target>>

\* A replacement has to change something of the entry it replaces.
ChangesSomething(r, entry) ==
  \/ r.display # entry.display
  \/ r.flags \notin {None, entry.flags}
  \/ r.morphology \notin {None, entry.morphology}
  \/ r.pos \notin {None, entry.pos}

(***************************************************************************)
(* validate_review_decisions: the file, a sequence of records, is refused  *)
(* or sorted; a decision on no target of these queues is an orphan.        *)
(***************************************************************************)
WellFormed(decisions) ==
  /\ \A i \in DOMAIN decisions : ValidDecision(decisions[i])
  /\ \A i, j \in DOMAIN decisions :
       i # j => Targeted(decisions[i]) # Targeted(decisions[j])

MetadataChangesChange(decisions, queues) ==
  \A d \in decisions :
    d.status = "ApprovedWithMetadataChange" =>
      \E e \in EntryRecords(queues) : e.target = d.target /\ ChangesSomething(d.replacement, e)

SectionOf(status) ==
  IF status \in {"Unreviewed", "NeedsLinguist", "NeedsSourceInvestigation"}
  THEN "Unresolved" ELSE status

Merged(decisions, queues) ==
  LET on == {d \in Range(decisions) : Targeted(d) \in TargetsOf(queues)}
  IN  IF \/ ~WellFormed(decisions)
         \/ TargetsOf(queues) = {}
         \/ ~MetadataChangesChange(on, queues)
      THEN Refused
      ELSE [sorted |-> [k \in {SectionOf(s) : s \in Statuses} |->
                          {d \in on : SectionOf(d.status) = k}],
            orphans |-> Range(decisions) \ on]
=============================================================================
