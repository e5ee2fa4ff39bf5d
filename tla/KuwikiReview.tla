---------------------------- MODULE KuwikiReview ----------------------------
(***************************************************************************)
(* Words of the kuwiki corpus that no pack has yet, as they are offered to *)
(* reviewers and taken back: the review queue (corpus/vocabulary_evidence  *)
(* .rs, corpus/quality.rs), the choice of a batch (review/kuwiki_batch.rs) *)
(* and the checks on a decided batch (review/kuwiki_decisions.rs).         *)
(*                                                                         *)
(* The hash of a file is modelled by what the file holds.  A batch is      *)
(* known by its sequence number.                                           *)
(***************************************************************************)
EXTENDS PackSelection

CONSTANTS
  ProtocolWords,      \* words of Kurmanci letters that come from URLs: http, https, ...
  MaxReviewToken,     \* letters of the longest token that is offered
  BatchSize

\* A directory that is not there, and one that is half there.
Missing == [state |-> "missing"]
Torn    == [state |-> "torn"]

Whole(batch) == batch.state = "whole"

(***************************************************************************)
(* build_vocabulary_evidence: of the documents of the corpus itself, the   *)
(* eligible words that the experimental pack does not have, the most       *)
(* widely attested first.                                                  *)
(***************************************************************************)
OwnDocuments(train) ==
  {i \in DOMAIN train : train[i].corpus = "kuwiki" /\ train[i].canonical = "kuwiki"
                        /\ train[i].original}

\* normalized form -> the documents and the tokens that have it
FrequenciesOf(train) ==
  LET tokens == UNION {{i} \X DOMAIN train[i].tokens : i \in OwnDocuments(train)}
      Form(t) == NormalizeText(train[t[1]].tokens[t[2]])
      Count(occurrences) == [documents |-> Cardinality({t[1] : t \in occurrences}),
                             tokens    |-> Cardinality(occurrences)]
  IN  [f \in {Form(t) : t \in tokens} \ {<<>>} |-> Count({t \in tokens : Form(t) = f})]

\* classify_technical_noise has no reason to hold the token back.
EligibleForReview(token) ==
  /\ \A c \in Chars(token) : Category[c] # "Cc"
  /\ \E c \in Chars(token) : Category[c] \in Letters
  /\ Len(token) <= MaxReviewToken
  /\ ToLowerCase(token) \notin ProtocolWords
  /\ Eligible(ToLowerCase(token))

QueueBefore(a, b) ==
  \/ a.documents > b.documents
  \/ a.documents = b.documents /\ a.tokens > b.tokens
  \/ a.documents = b.documents /\ a.tokens = b.tokens /\ WordLess(a.token, b.token)

Known(lexicon) == {e.normalized : e \in lexicon}

\* The words of the corpus that are unknown and worth a review.
Unknown(freq, lexicon) ==
  {[token |-> f, documents |-> freq[f].documents, tokens |-> freq[f].tokens] :
     f \in {g \in DOMAIN freq : g \notin Known(lexicon) /\ EligibleForReview(g)}}

Numbered(s) ==
  [k \in DOMAIN s |-> [rank |-> k, token |-> s[k].token, documents |-> s[k].documents,
                       tokens |-> s[k].tokens, normalized |-> NormalizeText(s[k].token)]]

QueueOf(train, lexicon) ==
  Numbered(Ranked(Unknown(FrequenciesOf(train), lexicon), QueueBefore))

(***************************************************************************)
(* generate_kuwiki_review_batch: what it reads, and what it chooses.       *)
(***************************************************************************)
QueueAccepted(queue) ==
  \A i \in DOMAIN queue :
    /\ queue[i].rank = i
    /\ queue[i].normalized = NormalizeText(queue[i].token)
    /\ \A j \in 1..(i - 1) : /\ queue[j].normalized # queue[i].normalized
                             /\ j = i - 1 => QueueBefore(queue[j], queue[i])

TokensOf(candidates) == {NormalizeText(c.token) : c \in Range(candidates)}

\* The directories of earlier batches; one that is not there is no earlier batch.
Priors(batches, id) == {i \in DOMAIN batches : i < id /\ batches[i] # Missing}

\* The candidates of an earlier batch, with the words of those before it.
PriorAccepted(id, candidates, assigned) ==
  /\ \A i \in DOMAIN candidates :
       /\ candidates[i].rank = i
       /\ candidates[i].batch = id
       /\ candidates[i].normalized = NormalizeText(candidates[i].token)
       /\ \A j \in 1..(i - 1) : candidates[j].normalized # candidates[i].normalized
  /\ TokensOf(candidates) \cap assigned = {}

\* Mutant: words of an earlier batch are offered again.
UnassignedAndAssigned(queue, assigned) == queue

Unassigned(queue, assigned) ==
  Sublist(queue, {k \in DOMAIN queue : queue[k].normalized \notin assigned})

\* The candidates, or Refused when the queue has too few words that are still free.
Chosen(id, queue, assigned) ==
  LET FirstFree(free) ==
        IF Len(free) < BatchSize THEN Refused
        ELSE [k \in 1..BatchSize |->
                [batch |-> id, rank |-> k, queue_rank |-> free[k].rank,
                 token |-> free[k].token, normalized |-> free[k].normalized]]
  IN  FirstFree(Unassigned(queue, assigned))

(***************************************************************************)
(* A decided batch: its decisions, and the specification in the code that  *)
(* pins both (KuwikiDecisionBatchSpec).                                    *)
(***************************************************************************)
OriginOf(id, candidates) == <<"kuwiki-batch-00" \o ToString(id), candidates>>

CountsOf(decisions) ==
  [s \in Statuses |-> Cardinality({i \in DOMAIN decisions : decisions[i].status = s})]

DatedRanks(decisions) == {d.evidence_rank : d \in {e \in Range(decisions) : e.dated}}

SpecOf(candidates, decisions) ==
  [candidates |-> candidates, decisions |-> decisions, counts |-> CountsOf(decisions),
   total |-> Len(decisions), date_ranks |-> DatedRanks(decisions)]

CandidatesAccepted(id, candidates) ==
  \A i \in DOMAIN candidates :
    /\ candidates[i].rank = i
    /\ candidates[i].normalized = NormalizeText(candidates[i].token)
    /\ \A j \in 1..(i - 1) :
         KuwikiTarget(OriginOf(id, candidates), candidates[i])
           # KuwikiTarget(OriginOf(id, candidates), candidates[j])

\* A decision on a candidate that names the candidate's rank as its evidence.
DecisionAccepted(id, candidates, d) ==
  /\ ValidDecision(d)
  /\ d.source = id
  /\ d.type = "entry"
  /\ \E c \in Range(candidates) :
       d.target = KuwikiTarget(OriginOf(id, candidates), c) /\ d.evidence_rank = c.rank
  /\ d.status # "Unreviewed"
  /\ d.dated => d.status = "RejectedFromDefaultPack"

\* The directories are whole and hold what the specification pins.
Pinned(id, spec, batch, decisions) ==
  /\ Whole(batch)
  /\ batch.candidates = spec.candidates
  /\ decisions = spec.decisions
  /\ batch.manifest.batch = id
  /\ batch.manifest.size = spec.total

CountedAs(spec, decisions) ==
  /\ Len(decisions) = spec.total
  /\ CountsOf(decisions) = spec.counts
  /\ DatedRanks(decisions) = spec.date_ranks

\* load_and_validate_kuwiki_decision_batch_internal succeeds.
Accepted(id, spec, batch, decisions) ==
  /\ Pinned(id, spec, batch, decisions)
  /\ CandidatesAccepted(id, batch.candidates)
  /\ \A i \in DOMAIN decisions :
       /\ DecisionAccepted(id, batch.candidates, decisions[i])
       /\ \A j \in 1..(i - 1) : decisions[i].target # decisions[j].target
  /\ Len(batch.candidates) = spec.total
  /\ CountedAs(spec, decisions)

SnapshotOf(id, batch, decisions) ==
  [batch |-> OriginOf(id, batch.candidates), candidates |-> batch.candidates,
   decisions |-> decisions]

\* What the fingerprint of a lexicon tells apart.
Fingerprint(resolved) ==
  IF resolved = Refused THEN Refused
  ELSE {[normalized |-> e.normalized, word |-> e.display, status |-> e.population,
         source |-> e.source] : e \in resolved}

\* The experimental pack, of the seed and the registered batches.
ExperimentalLexicon(seed, specs, batches, decisions) ==
  LET registered == {i \in DOMAIN specs : specs[i] # Missing}
      noQueues == [groups |-> {}, rejections |-> {}, entries |-> <<>>]
  IN  IF \A i \in registered : Accepted(i, specs[i], batches[i], decisions[i])
      THEN Fingerprint(Resolve("experimental-full", seed, noQueues, <<>>,
             {SnapshotOf(i, batches[i], decisions[i]) : i \in registered}))
      ELSE Refused
=============================================================================
