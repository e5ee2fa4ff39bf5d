--------------------------- MODULE ReviewPipeline ---------------------------
(***************************************************************************)
(* The commands that turn a dictionary into the words of a pack, and the   *)
(* files they leave for one another under data/: import-hunspell,          *)
(* audit-lexicon, generate-review-queues, generate-vocabulary-batch,       *)
(* validate-review-decisions and the resolution of build-pack.             *)
(*                                                                         *)
(* Commands run beside each other and beside the people who fetch a new    *)
(* dictionary, register it and edit decisions.jsonl; a command can be      *)
(* killed between any two steps.  Two commands hold a lock file, the       *)
(* others none.  The reports of the import are written in place, one after *)
(* the other; the three directories are swapped in by two renames.         *)
(***************************************************************************)
EXTENDS PackSelection

CONSTANTS
  Dictionary,      \* the revisions of the dictionary, the first one imported at the start
  Seed,            \* the words of the manual seed
  DecisionFiles,   \* what decisions.jsonl holds, one version after the other
  Policy,          \* data/pack-policy.toml
  Kuwiki,          \* the loaded decisions on Kuwiki batches
  Frequency,       \* normalized form -> documents and tokens of the corpus that have it
  BatchSize,       \* offers of a vocabulary batch, 1000
  Missing, Idle,
  MaxCommands,     \* bound: commands started
  MaxRunning       \* bound: commands running at once

List(s) == s \in Seq(Range(s))

ReplacementType(r) ==
  \A w \in {r.display, r.normalized, Or(r.flags, <<>>), Or(r.morphology, <<>>)} : w \in Seq(Nat)

\* The identifier a decision names is that of what its reviewer saw.
NamesWhatWasSeen(d) ==
  LET IdOfSeen(id) == id = EntryId(id.origin, d.seen.display, d.seen.normalized,
                                   d.seen.flags, d.seen.morphology)
      selects == d.resolution # None /\ d.resolution.kind = "select_member"
  IN  IF d.type = "entry" THEN IdOfSeen(d.target)
      ELSE selects => IdOfSeen(d.resolution.member)

DecisionType(d) ==
  /\ d.replacement # None => ReplacementType(d.replacement)
  /\ d.resolution # None =>
       \/ d.resolution.kind = "select_member"
       \/ d.resolution.kind = "replace_group" /\ ReplacementType(d.resolution.replacement)

ASSUME PipelineAssumption ==
  /\ MaxCommands \in Nat /\ MaxRunning \in Nat /\ BatchSize \in Nat
  /\ Dictionary # <<>> /\ Dictionary \in Seq(Seq({Blank, BadUtf8} \cup Lines))
  /\ ValidPolicy(Policy)

\* Normalising a word of a dictionary again changes nothing.
ASSUME SettledAssumption ==
  \A v \in DOMAIN Dictionary : \A line \in Range(Dictionary[v]) :
    TextLine(line) => NormalizeText(NormalizeText(line.word)) = NormalizeText(line.word)

ASSUME DecisionsAssumption ==
  /\ DecisionFiles # <<>> /\ List(DecisionFiles)
  /\ \A v \in DOMAIN DecisionFiles :
       /\ List(DecisionFiles[v]) /\ WellFormed(DecisionFiles[v])
       /\ \A d \in Range(DecisionFiles[v]) : DecisionType(d) /\ NamesWhatWasSeen(d)

\* The seed, the counts and the batches as their loaders return them.
ASSUME SourcesAssumption ==
  /\ \A form \in DOMAIN Frequency : Frequency[form] \in Nat \X Nat
  /\ IsFiniteSet(Seed) /\ Seed \subseteq Seq(Nat)
  /\ \A s \in Seed : Eligible(NormalizeText(s)) /\ ~Held(NormalizeText(s))
  /\ \A s, t \in Seed : NormalizeText(s) = NormalizeText(t) => s = t
  /\ IsFiniteSet(Kuwiki)
  /\ \A b \in Kuwiki :
       /\ b.batch[1] # "hunspell"
       /\ List(b.candidates) /\ List(b.decisions)
       /\ \A c \in Range(b.candidates) :
            /\ c.token \in Seq(Nat) /\ c.normalized \in Seq(Nat)
            /\ \E d \in Range(b.decisions) : d.target = KuwikiTarget(b.batch, c)
       /\ \A d \in Range(b.decisions) :
            d.status = "ApprovedWithMetadataChange" => ReplacementType(d.replacement)

VARIABLES
  source,      \* the dictionary on disk, and the revision the registry names
  reports,     \* the import: lexicon, rejected, conflicts, summary
  audit,       \* the audit directory
  queues,      \* the review queues
  decisions,   \* the version of decisions.jsonl
  report,      \* the controlled review report
  jobs,        \* command -> where its process stands
  locks,       \* the lock files that exist, by the command they belong to
  started

files == <<reports, audit, queues, report>>
people == <<source, decisions>>
vars == <<source, reports, audit, queues, decisions, report, jobs, locks, started>>

Command == {"import", "audit", "queues", "batch", "validate", "build"}
Locking == {"queues", "validate"}

(***************************************************************************)
(* At the start every command has run on the first dictionary; another one *)
(* may have been fetched, registered and imported since.                   *)
(***************************************************************************)
Init ==
  /\ \E v \in DOMAIN Dictionary : /\ source = [dic |-> v, revision |-> v]
                                  /\ reports = Import(Dictionary[v])
  /\ audit = Audit(Import(Dictionary[1]), Dictionary[1], Seed)
  /\ ~AuditFails(Import(Dictionary[1]), Dictionary[1])
  /\ queues = GenerateQueues(1, Dictionary[1], Import(Dictionary[1]), audit)
  /\ ~QueuesFail(1, Dictionary[1], Import(Dictionary[1]), audit)
  /\ decisions = 1
  /\ report = Merged(DecisionFiles[1], queues) /\ report # Refused
  /\ jobs = [c \in Command |-> Idle]
  /\ locks = {}
  /\ started = 0

(***************************************************************************)
(* Processes.                                                              *)
(***************************************************************************)
\* Mutant: no command makes its lock file.
BeginUnlocked(c, job) ==
  /\ jobs[c] = Idle
  /\ started < MaxCommands
  /\ Cardinality({d \in Command : jobs[d] # Idle}) < MaxRunning
  /\ c \notin locks
  /\ locks' = locks
  /\ jobs' = [jobs EXCEPT ![c] = job]
  /\ started' = started + 1
  /\ UNCHANGED people

Begin(c, job) ==
  /\ jobs[c] = Idle
  /\ started < MaxCommands
  /\ Cardinality({d \in Command : jobs[d] # Idle}) < MaxRunning
  /\ c \notin locks
  /\ locks' = locks \cup ({c} \cap Locking)
  /\ jobs' = [jobs EXCEPT ![c] = job]
  /\ started' = started + 1
  /\ UNCHANGED people

At(c, step) == jobs[c] # Idle /\ jobs[c].at = step

Goto(c, job) ==
  /\ jobs' = [jobs EXCEPT ![c] = job]
  /\ UNCHANGED <<people, locks, started>>

End(c) ==
  /\ jobs' = [jobs EXCEPT ![c] = Idle]
  /\ locks' = locks \ {c}
  /\ UNCHANGED <<people, started>>

\* A command that computed result goes on to swap its directory in, or fails.
Computed(c, inputs, fails, result) ==
  Goto(c, IF fails THEN [at |-> "failed", inputs |-> inputs]
          ELSE [at |-> "park", inputs |-> inputs, result |-> result])

\* The rename succeeds; or it fails, and its rollback succeeds or fails as well.
Renamed(job) == {job.result, job.backup, Missing}

Fail(c) == At(c, "failed") /\ End(c) /\ UNCHANGED files

\* The process is killed: a lock file stays until a person removes it.
Crash(c) ==
  /\ jobs[c] # Idle
  /\ jobs' = [jobs EXCEPT ![c] = Idle]
  /\ UNCHANGED <<people, files, locks, started>>

RemoveLock(c) ==
  /\ c \in locks /\ jobs[c] = Idle
  /\ locks' = locks \ {c}
  /\ UNCHANGED <<people, files, jobs, started>>

(***************************************************************************)
(* import-hunspell: refuses a file the registry does not name.             *)
(***************************************************************************)
ReportOrder == <<"lexicon", "rejected", "conflicts", "summary">>

StartImport ==
  /\ source.dic = source.revision
  /\ Begin("import", [at |-> ReportOrder[1], result |-> Import(Dictionary[source.dic])])
  /\ UNCHANGED files

WriteReport(i) ==
  LET job == jobs["import"]
  IN  /\ At("import", ReportOrder[i])
      /\ reports' = [reports EXCEPT ![ReportOrder[i]] = job.result[ReportOrder[i]]]
      /\ IF i < Len(ReportOrder) THEN Goto("import", [job EXCEPT !.at = ReportOrder[i + 1]])
                                 ELSE End("import")
      /\ UNCHANGED <<audit, queues, report>>

(***************************************************************************)
(* audit-lexicon: reads the import, then replays the dictionary.           *)
(***************************************************************************)
StartAudit == Begin("audit", [at |-> "replay", imported |-> reports]) /\ UNCHANGED files

ReplayDictionary ==
  LET With(imported) ==
        Computed("audit", [imported |-> imported, dic |-> source.dic],
                 AuditFails(imported, Dictionary[source.dic]),
                 Audit(imported, Dictionary[source.dic], Seed))
  IN  At("audit", "replay") /\ With(jobs["audit"].imported) /\ UNCHANGED files

ParkAudit ==
  /\ At("audit", "park")
  /\ audit' = Missing
  /\ Goto("audit", [at |-> "install", result |-> jobs["audit"].result, backup |-> audit])
  /\ UNCHANGED <<reports, queues, report>>

InstallAudit ==
  /\ At("audit", "install")
  /\ audit' \in Renamed(jobs["audit"])
  /\ End("audit")
  /\ UNCHANGED <<reports, queues, report>>

(***************************************************************************)
(* generate-review-queues: the registry and the dictionary, whose hash it  *)
(* does not check, then the import and the audit.                          *)
(***************************************************************************)
StartQueues == Begin("queues", [at |-> "inputs", source |-> source]) /\ UNCHANGED files

LoadInputs ==
  LET With(read) ==
        Computed("queues",
                 [source |-> read, imported |-> reports, audit |-> audit],
                 \/ audit = Missing
                 \/ QueuesFail(read.revision, Dictionary[read.dic], reports, audit),
                 GenerateQueues(read.revision, Dictionary[read.dic], reports, audit))
  IN  At("queues", "inputs") /\ With(jobs["queues"].source) /\ UNCHANGED files

ParkQueues ==
  /\ At("queues", "park")
  /\ queues' = Missing
  /\ Goto("queues", [at |-> "install", result |-> jobs["queues"].result, backup |-> queues])
  /\ UNCHANGED <<reports, audit, report>>

InstallQueues ==
  /\ At("queues", "install")
  /\ queues' \in Renamed(jobs["queues"])
  /\ End("queues")
  /\ UNCHANGED <<reports, audit, report>>

(***************************************************************************)
(* generate-vocabulary-batch: the decisions and the flags of the queues,   *)
(* then the pool, which is one of the queues.                              *)
(***************************************************************************)
FlagQueues == EntryQueues \ {"alphabet_policy_excluded", "punctuation_held", "hunspell_only"}

\* Mutant: a flagged group does not flag its members.
FlaggedTargets(q) ==
  {e.target : e \in q.rejections \cup UNION {q.entries[k] : k \in FlagQueues}}
    \cup {g.target : g \in q.groups}

Flagged(q) ==
  {e.target : e \in q.rejections \cup UNION {q.entries[k] : k \in FlagQueues}}
    \cup {g.target : g \in q.groups} \cup Consumed(q)

DecidedTargets(file) == {d.target : d \in {f \in Range(file) : f.status # "Unreviewed"}}

StartBatch ==
  /\ queues # Missing
  /\ Begin("batch", [at |-> "pool", decided |-> DecidedTargets(DecisionFiles[decisions]),
                     flags |-> Flagged(queues), read |-> queues])
  /\ UNCHANGED files

CorpusOf(form) == IF form \in DOMAIN Frequency THEN Frequency[form] ELSE <<0, 0>>

\* Clean entries first, then those the corpus has, in more documents, with more tokens.
RankedBefore(flags, e, f) ==
  LET clean(x) == x.target \notin flags
      key(x) == <<IF clean(x) THEN 1 ELSE 0>> \o CorpusOf(x.normalized)
  IN  \/ \E k \in 1..3 : /\ key(e)[k] > key(f)[k]
                         /\ \A j \in 1..(k - 1) : key(e)[j] = key(f)[j]
      \/ key(e) = key(f) /\ e.line < f.line

Offers(pool, decided, flags) ==
  LET pending == {e \in pool : e.target \notin decided}
      Less(e, f) == RankedBefore(flags, e, f)
      First(ranked) == SubSeq(ranked, 1, IF Len(ranked) < BatchSize THEN Len(ranked) ELSE BatchSize)
  IN  First(Ranked(pending, Less))

RankPool ==
  /\ At("batch", "pool")
  /\ LET job == jobs["batch"]
     IN  IF queues = Missing THEN Goto("batch", [at |-> "failed"])
         ELSE Goto("batch", [at |-> "ranked", flags |-> job.flags, read |-> job.read,
                             queues |-> queues,
                             offers |-> Offers(queues.entries["hunspell_only"],
                                               job.decided, job.flags)])
  /\ UNCHANGED files

WriteBatch == At("batch", "ranked") /\ End("batch") /\ UNCHANGED files

(***************************************************************************)
(* validate-review-decisions: the queues and the decisions, then the       *)
(* hashes of what the report names, then the report.                       *)
(***************************************************************************)
StartValidation ==
  /\ queues # Missing
  /\ Begin("validate", [at |-> "hash", result |-> Merged(DecisionFiles[decisions], queues)])
  /\ UNCHANGED files

HashInputs ==
  /\ At("validate", "hash")
  /\ Computed("validate", Missing, queues = Missing \/ jobs["validate"].result = Refused,
              jobs["validate"].result)
  /\ UNCHANGED files

ParkReport ==
  /\ At("validate", "park")
  /\ report' = Missing
  /\ Goto("validate", [at |-> "install", result |-> jobs["validate"].result, backup |-> report])
  /\ UNCHANGED <<reports, audit, queues>>

InstallReport ==
  /\ At("validate", "install")
  /\ report' \in Renamed(jobs["validate"])
  /\ End("validate")
  /\ UNCHANGED <<reports, audit, queues>>

(***************************************************************************)
(* build-pack: checks that the queues and the report are whole, not that   *)
(* the report is of these queues and decisions; then reads the queues, and *)
(* then the decisions.                                                     *)
(***************************************************************************)
StartBuild(pack) ==
  /\ queues # Missing /\ report # Missing
  /\ Begin("build", [at |-> "queues", pack |-> pack])
  /\ UNCHANGED files

ReadQueues ==
  /\ At("build", "queues")
  /\ Goto("build", IF queues = Missing THEN [at |-> "failed"]
                   ELSE [at |-> "decisions", pack |-> jobs["build"].pack, queues |-> queues])
  /\ UNCHANGED files

ResolvePack ==
  LET With(job, file) ==
        Goto("build", [at |-> "resolved", pack |-> job.pack, queues |-> job.queues,
                       decisions |-> file,
                       entries |-> Resolve(job.pack, Seed, job.queues, file, Kuwiki)])
  IN  /\ At("build", "decisions")
      /\ With(jobs["build"], DecisionFiles[decisions])
      /\ UNCHANGED files

FinishBuild == At("build", "resolved") /\ End("build") /\ UNCHANGED files

(***************************************************************************)
(* People.  Bound: the source is updated once.                             *)
(***************************************************************************)
FetchDictionary ==
  /\ source.dic = 1
  /\ \E v \in 2..Len(Dictionary) :
       /\ source.revision \in {1, v}
       /\ source' = [source EXCEPT !.dic = v]
  /\ UNCHANGED <<files, decisions, jobs, locks, started>>

RegisterRevision ==
  /\ source.revision = 1
  /\ \E v \in 2..Len(Dictionary) :
       /\ source.dic \in {1, v}
       /\ source' = [source EXCEPT !.revision = v]
  /\ UNCHANGED <<files, decisions, jobs, locks, started>>

EditDecisions ==
  /\ decisions < Len(DecisionFiles)
  /\ decisions' = decisions + 1
  /\ UNCHANGED <<source, files, jobs, locks, started>>

Next ==
  \/ \E c \in Command : Fail(c) \/ Crash(c) \/ RemoveLock(c)
  \/ StartImport \/ \E i \in DOMAIN ReportOrder : WriteReport(i)
  \/ StartAudit \/ ReplayDictionary \/ ParkAudit \/ InstallAudit
  \/ StartQueues \/ LoadInputs \/ ParkQueues \/ InstallQueues
  \/ StartBatch \/ RankPool \/ WriteBatch
  \/ StartValidation \/ HashInputs \/ ParkReport \/ InstallReport
  \/ \E pack \in Packs \ {"seed"} : StartBuild(pack)
  \/ ReadQueues \/ ResolvePack \/ FinishBuild
  \/ FetchDictionary \/ RegisterRevision \/ EditDecisions

Spec == Init /\ [][Next]_vars

(***************************************************************************)
(* Properties.                                                             *)
(***************************************************************************)
\* Type invariant: the reports are those of an import, a process stands at a
\* step of its command, and only a command that locks has a lock file.
TypeOK ==
  /\ source \in [dic : DOMAIN Dictionary, revision : DOMAIN Dictionary]
  /\ DOMAIN reports = Range(ReportOrder)
  /\ decisions \in DOMAIN DecisionFiles
  /\ DOMAIN jobs = Command
  /\ \A c \in Command : jobs[c] # Idle /\ c \in Locking => c \in locks
  /\ locks \subseteq Locking
  /\ started \in 0..MaxCommands

Resolved(pack) ==
  At("build", "resolved") /\ jobs["build"].pack = pack /\ jobs["build"].entries # Refused

\* What the reviewer had before them, or what they put in its place.  Two spellings
\* that compose to the same text read the same.
ReadsAs(c, r) ==
  /\ Compose(c.display) = Compose(r.display)
  /\ NormalizeText(c.normalized) = NormalizeText(r.normalized)
  /\ c.flags = r.flags
  /\ BagOfSeq(c.morphology) = BagOfSeq(r.morphology)

ChangedTo(replacement, r) ==
  [display |-> replacement.display, normalized |-> replacement.normalized,
   flags |-> Or(replacement.flags, r.flags),
   morphology |-> Or(replacement.morphology, r.morphology)]

Approves(d, c) ==
  \/ d.type = "entry" /\ d.status = "Approved" /\ ReadsAs(c, d.seen)
  \/ /\ d.type = "entry" /\ d.status = "ApprovedWithMetadataChange"
     /\ ReadsAs(c, ChangedTo(d.replacement, d.seen))
  \/ /\ d.type = "conflict_group" /\ d.status = "Approved"
     /\ d.resolution.kind = "select_member" /\ ReadsAs(c, d.seen)
  \/ /\ d.type = "conflict_group" /\ d.status = "Approved"
     /\ d.resolution.kind = "replace_group"
     /\ ReadsAs(c, ChangedTo(d.resolution.replacement, NoFields(<<>>)))

\* A dictionary word of the reviewed pack has the form, the flags and the morphology that
\* a reviewer approved, whatever was fetched, imported or registered since, and whichever
\* commands ran beside the build.  (Its part of speech is not compared.)
ReviewedAsSeen ==
  Resolved("reviewed") =>
    \A c \in {e \in jobs["build"].entries : e.source = "hunspell"} :
      \E d \in Range(jobs["build"].decisions) : Approves(d, c)

\* A member of a conflict group gets into a pack only as the decision on the
\* whole group has it; a decision on the member alone does nothing.  Where the
\* groups have their members' forms (SoundGroups) a member has one group; where
\* they do not, two groups may share a member, and one of the two lets it in.
LetsIn(pack, d, id) ==
  \/ d.status = "Approved" /\ d.resolution.member = id
  \/ /\ pack = "experimental-full"
     /\ d.status \in {"ExperimentalOnly", "Unreviewed"}

Belongs(id, g) == \E m \in g.members : m.id = id

SoundGroup(g) == \A m \in g.members : m.normalized = g.normalized

MembersFollowTheGroup ==
  \A pack \in Packs : Resolved(pack) =>
    LET job == jobs["build"]
        Decision(g) == DecisionOnGroup(job.decisions, job.queues, g)
    IN  \A c \in {e \in job.entries : e.source = "hunspell" /\ e.target \in Consumed(job.queues)} :
          \E g \in job.queues.groups :
            /\ Belongs(c.target, g)
            /\ LetsIn(pack, Decision(g), c.target)
            /\ \A h \in job.queues.groups :
                 Belongs(c.target, h) /\ SoundGroup(g) /\ SoundGroup(h) => h = g

\* The experimental pack of the same queues and decisions can be built too and
\* has every word of the reviewed one, the same in every field: nothing that is
\* unreviewed takes the place of what is approved.
TrustSubsets ==
  Resolved("reviewed") =>
    LET job == jobs["build"]
        full == "experimental-full"
    IN  /\ ~PackRefused(full, Seed, job.queues, job.decisions, Kuwiki)
        /\ job.entries \subseteq PackEntries(full, Seed, job.queues, job.decisions, Kuwiki)

\* The audit of an import of the dictionary it replays fails just when a line of
\* the dictionary cannot be decoded: the importer does not count such a line.
OnlyUndecodableLinesFailTheAudit ==
  \A at \in {"failed", "park"} : At("audit", at) =>
    LET inputs == jobs["audit"].inputs
        file == Dictionary[inputs.dic]
    IN  inputs.imported = Import(file) => (at = "failed" <=> BadUtf8 \in Range(file))

\* Queues of one dictionary, its import and its audit are refused just when a
\* record is suspicious for two reasons: the audit counts it once for each.
OnlyTwofoldSuspicionFailsQueues ==
  \A at \in {"failed", "park"} : At("queues", at) =>
    LET inputs == jobs["queues"].inputs
        file == Dictionary[inputs.source.dic]
        words == inputs.imported.lexicon
    IN  /\ inputs.imported = Import(file)
        /\ inputs.audit # Missing
        /\ inputs.audit = Audit(inputs.imported, file, Seed)
        /\ ~AuditFails(inputs.imported, file)
        => (at = "failed" <=> \E r \in words : Cardinality(SuspicionsOf(words, r)) > 1)

\* A member of a conflict group has the form of the group, unless the conflicts
\* were reported for another dictionary than the one the generator reads.
SoundGroups ==
  At("queues", "park") =>
    LET inputs == jobs["queues"].inputs
    IN  \/ inputs.imported.conflicts # Import(Dictionary[inputs.source.dic]).conflicts
        \/ \A g \in jobs["queues"].result.groups : SoundGroup(g)

\* A vocabulary offer without a flag can be approved as it stands: with that
\* decision alone the reviewed pack is built and has its form.  It is so unless
\* the queues were replaced between the reading of the flags and of the pool.
ApprovalOf(o) ==
  [type |-> "entry", target |-> o.target, status |-> "Approved", replacement |-> None,
   resolution |-> None]

CleanOffersTakeEffect ==
  At("batch", "ranked") /\ jobs["batch"].read = jobs["batch"].queues =>
    \A o \in {e \in Range(jobs["batch"].offers) : e.target \notin jobs["batch"].flags} :
      LET q == jobs["batch"].queues
      IN  /\ ~PackRefused("reviewed", Seed, q, <<ApprovalOf(o)>>, {})
          /\ o.normalized \in Forms(PackEntries("reviewed", Seed, q, <<ApprovalOf(o)>>, {}))
=============================================================================
