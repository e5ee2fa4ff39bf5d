--------------------------- MODULE PackSelection ---------------------------
(***************************************************************************)
(* Which words a pack holds: pack/policy.rs, pack/selection.rs,            *)
(* pack/collisions.rs, the resolver of pack/builder.rs and the Kuwiki      *)
(* selection of review/kuwiki_decisions.rs.                                *)
(***************************************************************************)
EXTENDS ReviewDecisions, TLC

Packs == {"seed", "reviewed", "experimental-full"}

(***************************************************************************)
(* The policy file.                                                        *)
(***************************************************************************)
ModelProfiles == {"none", "frequency", "ngram", "prediction"}

ValidPolicy(policy) ==
  /\ DOMAIN policy.packs = Packs
  /\ policy.default \in Packs
  /\ ~policy.packs[policy.default].opt_in
  /\ policy.packs[policy.default].allow_as_default
  /\ policy.packs["experimental-full"].opt_in
  /\ ~policy.packs["experimental-full"].allow_as_default
  /\ \A p \in Packs :
       LET pack == policy.packs[p]
       IN  /\ pack.model_profile \in ModelProfiles
           /\ pack.model_profile = "none" <=> pack.language_model = None

(***************************************************************************)
(* Candidates.  A lower population wins a collision.                       *)
(***************************************************************************)
ManualSeed       == 1
MetadataChange   == 3
ExternalApproved == 4
Experimental     == 5
Unreviewed       == 6

PosOr(pos, default) == IF pos \in {None, NoPos} THEN default ELSE pos
Or(value, default)  == IF value = None THEN default ELSE value

Candidate(population, target, source, normalized, r) ==
  [population |-> population, target |-> target, source |-> source, display |-> r.display,
   normalized |-> normalized, line |-> r.line, flags |-> r.flags,
   morphology |-> r.morphology, pos |-> PosOr(r.pos, "unknown")]

\* A replacement, its missing fields taken from the entry it replaces.
Replaced(target, source, replacement, r) ==
  Candidate(MetadataChange, target, source, replacement.normalized,
            [display |-> replacement.display, line |-> r.line,
             flags |-> Or(replacement.flags, r.flags),
             morphology |-> Or(replacement.morphology, r.morphology),
             pos |-> PosOr(replacement.pos, r.pos)])

\* A word that comes without the fields of a dictionary record.
NoFields(display) ==
  [display |-> display, line |-> 0, flags |-> <<>>, morphology |-> <<>>, pos |-> "unknown"]

SeedCandidates(seed) ==
  {Candidate(ManualSeed, [seed |-> NormalizeText(s)], "manual-seed", NormalizeText(s),
             NoFields(s)) : s \in seed}

\* The last decision of the file on a target that the queues offer.
Undecided == [status |-> "Unreviewed"]

DecisionOn(decisions, queues, target) ==
  LET on == {i \in DOMAIN decisions : Targeted(decisions[i]) = target}
  IN  IF on = {} \/ target \notin TargetsOf(queues) THEN Undecided
      ELSE decisions[CHOOSE i \in on : \A j \in on : j <= i]

(***************************************************************************)
(* Conflict groups: decided as a whole, each member else experimental.     *)
(***************************************************************************)
MemberCandidate(population, m) ==
  Candidate(population, m.id, "hunspell", NormalizeText(m.display), m)

Selected(d, g) == {m \in g.members : m.id = d.resolution.member}

GroupRefused(d, g) ==
  \/ d.status = "ApprovedWithMetadataChange"
  \/ /\ d.status = "Approved"
     /\ \/ d.resolution = None
        \/ d.resolution.kind = "select_member" /\ Selected(d, g) = {}

\* Of the members with the selected identifier the first.  The code's list is sorted by
\* word and line, then (stably) by identifier: the least line, but for texts that are
\* the same only once composed.
GroupCandidates(pack, d, g) ==
  CASE d.status = "Approved" /\ d.resolution.kind = "select_member" ->
         {MemberCandidate(ExternalApproved,
            CHOOSE m \in Selected(d, g) : \A n \in Selected(d, g) : m.line <= n.line)}
    [] d.status = "Approved" /\ d.resolution.kind = "replace_group" ->
         {Replaced(g.target, "hunspell", d.resolution.replacement,
                   [NoFields(<<>>) EXCEPT !.pos = NoPos])}
    [] d.status = "ExperimentalOnly" /\ pack = "experimental-full" ->
         {MemberCandidate(Experimental, m) : m \in g.members}
    [] d.status = "Unreviewed" /\ pack = "experimental-full" ->
         {MemberCandidate(Unreviewed, m) : m \in g.members}
    [] OTHER -> {}

(***************************************************************************)
(* Entries: every target of the entry queues that is in no conflict group. *)
(* A target is held once for each queue it is in, and a refused line once  *)
(* for each line with its text: the last one counts.                       *)
(***************************************************************************)
Consumed(queues) == {m.id : m \in UNION {g.members : g \in queues.groups}}

\* Mutant: a member of a group is an item of its own as well.
ItemsAndMembers(queues) ==
  {e \in EntryRecords(queues) :
     \A f \in EntryRecords(queues) : f.target = e.target => f.line <= e.line}

Items(queues) ==
  {e \in EntryRecords(queues) :
     /\ e.target \notin Consumed(queues)
     /\ \A f \in EntryRecords(queues) : f.target = e.target => f.line <= e.line}

EntryCandidates(pack, d, e) ==
  CASE d.status = "Approved" ->
         {Candidate(ExternalApproved, e.target, "hunspell", e.normalized, e)}
    [] d.status = "ApprovedWithMetadataChange" ->
         {Replaced(e.target, "hunspell", d.replacement, e)}
    [] d.status = "ExperimentalOnly" /\ pack = "experimental-full" ->
         {Candidate(Experimental, e.target, "hunspell", e.normalized, e)}
    [] d.status = "Unreviewed" /\ pack = "experimental-full" ->
         {Candidate(Unreviewed, e.target, "hunspell", e.normalized, e)}
    [] OTHER -> {}

(***************************************************************************)
(* A Kuwiki batch: its candidates, and a decision on each of them.         *)
(***************************************************************************)
KuwikiTarget(batch, c) == EntryId(batch, c.token, c.normalized, <<>>, <<>>)

SelectKuwiki(pack, snapshot) ==
  LET decided(c) == CHOOSE d \in Range(snapshot.decisions) :
                      d.target = KuwikiTarget(snapshot.batch, c)
      from(c, d) ==
        CASE d.status = "Approved" ->
               {Candidate(ExternalApproved, d.target, snapshot.batch[1], c.normalized,
                          NoFields(c.token))}
          [] d.status = "ApprovedWithMetadataChange" ->
               {Replaced(d.target, snapshot.batch[1], d.replacement, NoFields(c.token))}
          [] d.status = "ExperimentalOnly" /\ pack = "experimental-full" ->
               {Candidate(Experimental, d.target, snapshot.batch[1], c.normalized,
                          NoFields(c.token))}
          [] OTHER -> {}
  IN  UNION {from(c, decided(c)) : c \in Range(snapshot.candidates)}

(***************************************************************************)
(* The two policies on what enters the default vocabulary.                 *)
(***************************************************************************)
Gated(pack, candidates) ==
  {c \in candidates : pack \in {"seed", "reviewed"} \/ c.population <= ExternalApproved}

AlphabetPolicy(gated) == \A c \in gated : Eligible(c.normalized)

WordPunctuationPolicy(gated) ==
  /\ \A c \in gated : ~Held(c.normalized)
  /\ \A c, d \in gated :
       PunctuationStrippedForm(c.normalized) = PunctuationStrippedForm(d.normalized)
         => c.normalized = d.normalized

(***************************************************************************)
(* resolve_collisions: one candidate of each normalized form.              *)
(***************************************************************************)
\* Mutant: the higher population wins.
PrecedesUpwards(c, d) ==
  \/ c.population > d.population
  \/ c.population = d.population /\ WordLess(c.display, d.display)

Precedes(c, d) ==
  LET less == <<c.population < d.population, c.line < d.line, WordLess(c.display, d.display),
                WordLess(c.flags, d.flags), WordLess(c.morphology, d.morphology)>>
      same == <<c.population = d.population, c.line = d.line, c.display = d.display,
                c.flags = d.flags, TRUE>>
  IN  \E k \in 1..5 : less[k] /\ \A j \in 1..(k - 1) : same[j]

Top(competing) == {c \in competing : \A d \in competing : ~Precedes(d, c)}

EqualPriority(competing) ==
  \E c, d \in competing : /\ c # d
                          /\ c.population = d.population
                          /\ \A e \in competing : c.population <= e.population

Competing(candidates, form) == {c \in candidates : c.normalized = form}

ResolveCollisions(candidates) ==
  {CHOOSE c \in Top(Competing(candidates, f)) : TRUE : f \in Forms(candidates)}

(***************************************************************************)
(* resolve_authoritative_pack_payload: all sources, then the policies,     *)
(* then the collisions.                                                    *)
(***************************************************************************)
DecisionOnGroup(decisions, queues, g) ==
  DecisionOn(decisions, queues, <<"conflict_group", g.target>>)
DecisionOnEntry(decisions, queues, e) ==
  DecisionOn(decisions, queues, <<"entry", e.target>>)

External(pack, queues, decisions, kuwiki) ==
  (UNION {GroupCandidates(pack, DecisionOnGroup(decisions, queues, g), g) :
            g \in queues.groups})
    \cup (UNION {EntryCandidates(pack, DecisionOnEntry(decisions, queues, e), e) :
                   e \in Items(queues)})
    \cup (UNION {SelectKuwiki(pack, s) : s \in kuwiki})

Candidates(pack, seed, queues, decisions, kuwiki) ==
  SeedCandidates(seed)
    \cup IF pack = "seed" THEN {} ELSE External(pack, queues, decisions, kuwiki)

CandidatesRefused(pack, candidates) ==
  \/ ~AlphabetPolicy(Gated(pack, candidates))
  \/ ~WordPunctuationPolicy(Gated(pack, candidates))
  \/ /\ pack = "reviewed"
     /\ \E f \in Forms(candidates) : EqualPriority(Competing(candidates, f))

PackRefused(pack, seed, queues, decisions, kuwiki) ==
  \/ /\ pack # "seed"
     /\ \E g \in queues.groups : GroupRefused(DecisionOnGroup(decisions, queues, g), g)
  \/ CandidatesRefused(pack, Candidates(pack, seed, queues, decisions, kuwiki))

PackEntries(pack, seed, queues, decisions, kuwiki) ==
  ResolveCollisions(Candidates(pack, seed, queues, decisions, kuwiki))

Resolve(pack, seed, queues, decisions, kuwiki) ==
  IF PackRefused(pack, seed, queues, decisions, kuwiki) THEN Refused
  ELSE PackEntries(pack, seed, queues, decisions, kuwiki)
=============================================================================
