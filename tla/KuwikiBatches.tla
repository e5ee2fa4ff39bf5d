---------------------------- MODULE KuwikiBatches ----------------------------
(***************************************************************************)
(* The round of a Kuwiki batch: build-vocabulary-evidence writes a summary *)
(* and a queue, generate-kuwiki-batch makes a batch of the first of them,  *)
(* reviewers decide it, and commits pin and register the batch, so that    *)
(* its words enter the lexicon, which the next evidence leaves out.        *)
(*                                                                         *)
(* No command holds a lock, and a command can be killed between any two    *)
(* steps.  Both commands hash a file in one step and open it again in a    *)
(* later one; each such pair is two actions.  The evidence is written in   *)
(* place, file by file; a batch is staged as a directory, and the old one  *)
(* is removed before the stage is renamed.                                 *)
(***************************************************************************)
EXTENDS KuwikiReview

CONSTANTS
  Train,           \* the train partitions there may be; an index stands for the hash
  Seed,            \* the words of the manual seed
  Batches,         \* the numbers of the batches
  Verdicts,        \* what reviewers may answer: word -> status
  Idle,
  MaxCommands,     \* bound: commands started and decision files written
  MaxRunning       \* bound: commands that run at once

ASSUME BatchesAssumption ==
  /\ Batches \subseteq Nat /\ MaxCommands \in Nat /\ BatchSize \in Nat \ {0}

ASSUME TrainAssumption ==
  /\ Train \in Seq(Range(Train)) /\ Train # <<>>
  /\ \A train \in Range(Train) : /\ train \in Seq(Range(train))
                                 /\ \A d \in Range(train) : d.tokens \in Seq(Seq(Nat))

VARIABLES
  corpus,      \* the train partition on disk
  evidence,    \* data/reports/vocabulary-evidence: summary, queue, artifacts
  builder,     \* the process of build-vocabulary-evidence
  batches,     \* data/review-batches/kuwiki-batch-NNN
  stages,      \* data/review-batches/kuwiki-batch-NNN.tmp
  generators,  \* batch -> the process that generates it
  decisions,   \* data/review-decisions/kuwiki-batch-NNN, empty if there is none
  specs,       \* KNOWN_BATCH_SPECS, as the latest data-builder has it
  registered,  \* the batches that sources.toml lists
  started,
  mixed,       \* history: the build behind artifacts.sha256 read an input twice, changed
  disturbed    \* history: batches whose generator had what it reads replaced under it

directories == <<batches, stages>>
people == <<corpus, decisions, specs, registered>>
history == <<mixed, disturbed>>
vars == <<people, evidence, builder, directories, generators, started, history>>

\* The experimental lexicon for a process that was compiled with these pins.
Lexicon(known) ==
  ExperimentalLexicon(Seed, [i \in Batches |-> IF i \in registered THEN known[i] ELSE Missing],
                      batches, decisions)

EvidenceOf(summary, queue) ==
  [summary |-> summary, queue |-> queue,
   artifacts |-> [summary |-> summary, queue |-> queue]]

\* The batch as it is staged.  The fields verified (the lexicon the evidence was compared
\* with), pins (the batches registered then) and undisturbed are not in the files.
BatchOf(id, candidates, job, undisturbed) ==
  [state |-> "whole",
   candidates |-> candidates,
   manifest |-> [batch |-> id, size |-> BatchSize, queue |-> job.hash,
                 lexicon |-> job.summary.lexicon, excluded |-> job.excluded],
   verified |-> job.verified, pins |-> job.pins, undisturbed |-> undisturbed]

\* Evidence that was verified: the recorded hash of its queue, its summary, the lexicon.
VerifiedJob(hash, summary, lexicon, pins) ==
  [at |-> "open", hash |-> hash, summary |-> summary, verified |-> lexicon, pins |-> pins,
   queue |-> <<>>, priors |-> {}, excluded |-> {}, assigned |-> {}]

\* Of the first train partition the evidence was built, and the first batch generated.
Init ==
  /\ corpus = 1
  /\ specs = [i \in Batches |-> Missing]
  /\ registered = {}
  /\ decisions = [i \in Batches |-> <<>>]
  /\ \E lexicon \in {ExperimentalLexicon(Seed, specs, specs, decisions)} :
     \E queue \in {QueueOf(Train[1], lexicon)} :
     \E chosen \in {Chosen(1, queue, {})} :
       /\ chosen # Refused
       /\ evidence = EvidenceOf([corpus |-> 1, lexicon |-> lexicon], queue)
       /\ batches = [i \in Batches |->
                       IF i > 1 THEN Missing
                       ELSE BatchOf(1, chosen, VerifiedJob(queue, evidence.summary, lexicon, {}),
                                    TRUE)]
  /\ builder = Idle
  /\ stages = [i \in Batches |-> Missing]
  /\ generators = [i \in Batches |-> Idle]
  /\ started = 0
  /\ mixed = FALSE
  /\ disturbed = {}

Start == started < MaxCommands /\ started' = started + 1

BuilderAt(step) == builder # Idle /\ builder.at = step
At(i, step)     == generators[i] # Idle /\ generators[i].at = step

Running == {i \in Batches : generators[i] # Idle} \cup (IF builder = Idle THEN {} ELSE {Idle})

\* From the first hash of the evidence until its queue is open, ...
ReadsEvidence(i) ==
  \E step \in {"hash queue", "summary entry", "queue entry", "parse", "corpus", "lexicon",
               "open"} : At(i, step)

\* ... and from the comparison of the lexicon until every earlier batch is read.
ReadsPriors(i) == \E step \in {"open", "list", "prior", "reopen"} : At(i, step)

(***************************************************************************)
(* build-vocabulary-evidence.  The corpus is hashed, and read later; the   *)
(* lexicon is resolved, and resolved again for its fingerprint.            *)
(***************************************************************************)
StartBuild ==
  /\ builder = Idle
  /\ Start /\ Cardinality(Running) < MaxRunning
  /\ builder' = [at |-> "resolve", known |-> specs, corpus |-> corpus]
  /\ UNCHANGED <<people, evidence, directories, generators, history>>

Build(job) ==
  /\ builder' = job
  /\ UNCHANGED <<people, directories, generators, started>>

ResolveLexicon ==
  /\ BuilderAt("resolve")
  /\ \E lexicon \in {Lexicon(builder.known)} :
       Build(IF lexicon = Refused THEN Idle
             ELSE [at |-> "fingerprint", known |-> builder.known, corpus |-> builder.corpus,
                   lexicon |-> lexicon])
  /\ UNCHANGED <<evidence, history>>

\* compute_experimental_lexicon_fingerprint.
TakeFingerprint ==
  /\ BuilderAt("fingerprint")
  /\ \E lexicon \in {Lexicon(builder.known)} :
       Build(IF lexicon = Refused THEN Idle
             ELSE [at |-> "read", lexicon |-> builder.lexicon,
                   summary |-> [corpus |-> builder.corpus, lexicon |-> lexicon]])
  /\ UNCHANGED <<evidence, history>>

\* The words of the corpus there is now, less those of the lexicon resolved first.
ReadCorpus ==
  /\ BuilderAt("read")
  /\ Build([at |-> "summary", summary |-> builder.summary,
            queue |-> QueueOf(Train[corpus], builder.lexicon),
            mixed |-> \/ builder.summary.corpus # corpus
                      \/ builder.summary.lexicon # builder.lexicon])
  /\ UNCHANGED <<evidence, history>>

\* A generator that is reading the evidence finds another in the middle of it.
WriteEvidence(written) ==
  /\ evidence' = written
  /\ disturbed' = IF written = evidence THEN disturbed
                  ELSE disturbed \cup {i \in Batches : ReadsEvidence(i)}

WriteSummary ==
  /\ BuilderAt("summary")
  /\ WriteEvidence([evidence EXCEPT !.summary = builder.summary])
  /\ Build([builder EXCEPT !.at = "queue"])
  /\ UNCHANGED mixed

WriteQueue ==
  /\ BuilderAt("queue")
  /\ WriteEvidence([evidence EXCEPT !.queue = builder.queue])
  /\ Build([builder EXCEPT !.at = "artifacts"])
  /\ UNCHANGED mixed

\* The hashes are those of the files on disk.
WriteArtifacts ==
  /\ BuilderAt("artifacts")
  /\ evidence' = [evidence EXCEPT !.artifacts = [summary |-> evidence.summary,
                                                 queue |-> evidence.queue]]
  /\ mixed' = builder.mixed
  /\ Build(Idle)
  /\ UNCHANGED disturbed

CrashBuild ==
  /\ builder # Idle
  /\ Build(Idle)
  /\ UNCHANGED <<evidence, history>>

(***************************************************************************)
(* generate-kuwiki-batch: the verification of the evidence.  Summary and   *)
(* queue are hashed and their hashes looked up in artifacts.sha256; then   *)
(* the summary is opened again, and what it names is compared with what is *)
(* there now.                                                              *)
(***************************************************************************)
Goto(i, job) ==
  /\ generators' = [generators EXCEPT ![i] = job]
  /\ UNCHANGED <<people, evidence, builder, started, mixed>>

\* A step that reads: it goes on with the job, or the command fails.
Read(i, accepted, job) ==
  /\ Goto(i, IF accepted THEN job ELSE Idle)
  /\ UNCHANGED directories

StartBatch(i) ==
  /\ generators[i] = Idle
  /\ Start /\ Cardinality(Running) < MaxRunning
  /\ generators' = [generators EXCEPT ![i] =
       [at |-> "hash queue", known |-> specs, summary |-> evidence.summary, hash |-> <<>>]]
  /\ disturbed' = disturbed \ {i}
  /\ UNCHANGED <<people, evidence, builder, directories, mixed>>

HashQueue(i) ==
  /\ At(i, "hash queue")
  /\ Read(i, TRUE, [generators[i] EXCEPT !.at = "summary entry", !.hash = evidence.queue])
  /\ UNCHANGED disturbed

\* Mutant: the summary is not looked up in artifacts.sha256.
PassSummary(i) ==
  /\ At(i, "summary entry")
  /\ Read(i, TRUE, [generators[i] EXCEPT !.at = "queue entry"])
  /\ UNCHANGED disturbed

CompareSummary(i) ==
  /\ At(i, "summary entry")
  /\ Read(i, evidence.artifacts.summary = generators[i].summary,
          [generators[i] EXCEPT !.at = "queue entry"])
  /\ UNCHANGED disturbed

CompareQueue(i) ==
  /\ At(i, "queue entry")
  /\ Read(i, evidence.artifacts.queue = generators[i].hash,
          [generators[i] EXCEPT !.at = "parse"])
  /\ disturbed' = IF mixed THEN disturbed \cup {i} ELSE disturbed

ParseSummary(i) ==
  /\ At(i, "parse")
  /\ Read(i, TRUE, [generators[i] EXCEPT !.at = "corpus", !.summary = evidence.summary])
  /\ UNCHANGED disturbed

CompareCorpus(i) ==
  /\ At(i, "corpus")
  /\ Read(i, generators[i].summary.corpus = corpus, [generators[i] EXCEPT !.at = "lexicon"])
  /\ UNCHANGED disturbed

\* What the process knows of the registered batches that are earlier than its own.
PinsBefore(i, known) ==
  {[batch |-> j, candidates |-> known[j].candidates] :
     j \in {k \in registered : k < i /\ known[k] # Missing}}

\* Mutant: the fingerprint of the lexicon is not compared.
PassLexicon(i) ==
  /\ At(i, "lexicon")
  /\ \E lexicon \in {Lexicon(generators[i].known)} :
       Read(i, lexicon # Refused,
            VerifiedJob(generators[i].hash, generators[i].summary, lexicon,
                        PinsBefore(i, generators[i].known)))
  /\ UNCHANGED disturbed

CompareLexicon(i) ==
  /\ At(i, "lexicon")
  /\ \E lexicon \in {Lexicon(generators[i].known)} :
       Read(i, lexicon # Refused /\ generators[i].summary.lexicon = lexicon,
            VerifiedJob(generators[i].hash, generators[i].summary, lexicon,
                        PinsBefore(i, generators[i].known)))
  /\ UNCHANGED disturbed

(***************************************************************************)
(* Its choice.  The queue is opened again; the earlier batches are listed, *)
(* and each in its turn is hashed and then opened again.                   *)
(***************************************************************************)
OpenQueue(i) ==
  /\ At(i, "open")
  /\ Read(i, QueueAccepted(evidence.queue),
          [generators[i] EXCEPT !.at = "list", !.queue = evidence.queue])
  /\ UNCHANGED disturbed

ListPriors(i) ==
  /\ At(i, "list")
  /\ Read(i, TRUE, [generators[i] EXCEPT !.at = "prior", !.priors = Priors(batches, i)])
  /\ UNCHANGED disturbed

IsNext(j, i) == j \in generators[i].priors /\ \A k \in generators[i].priors : j <= k

\* The candidates agree with manifest and artifacts.sha256 beside them, that is, the
\* directory is whole; their hash is what the new manifest will name as excluded.
HashPrior(i) ==
  /\ At(i, "prior")
  /\ \E j \in Batches :
       /\ IsNext(j, i)
       /\ Read(i, Whole(batches[j]) /\ batches[j].manifest.batch = j,
               [generators[i] EXCEPT !.at = "reopen", !.excluded =
                  @ \cup {[batch |-> j, candidates |-> batches[j].candidates]}])
  /\ UNCHANGED disturbed

\* Whatever is there now is what the words are taken from.
ReopenPrior(i) ==
  /\ At(i, "reopen")
  /\ \E j \in Batches :
       /\ IsNext(j, i)
       /\ Read(i, Whole(batches[j])
                    /\ PriorAccepted(j, batches[j].candidates, generators[i].assigned),
               [generators[i] EXCEPT !.at = "prior", !.priors = @ \ {j},
                                     !.assigned = @ \cup TokensOf(batches[j].candidates)])
  /\ UNCHANGED disturbed

ChooseCandidates(i) ==
  /\ At(i, "prior")
  /\ generators[i].priors = {}
  /\ \E chosen \in {Chosen(i, generators[i].queue, generators[i].assigned)} :
       Read(i, chosen # Refused,
            [at |-> "clean", batch |-> BatchOf(i, chosen, generators[i], i \notin disturbed)])
  /\ disturbed' = disturbed \ {i}

(***************************************************************************)
(* Its staging.                                                            *)
(***************************************************************************)
\* A generator of a later batch that is reading the earlier ones finds another there.
Replace(i, batch) ==
  /\ batches' = [batches EXCEPT ![i] = batch]
  /\ disturbed' = IF batch = batches[i] THEN disturbed
                  ELSE disturbed \cup {j \in Batches : i < j /\ ReadsPriors(j)}

\* Mutant: the old batch goes before the new one is staged.
CleanStageAndBatch(i) ==
  /\ At(i, "clean")
  /\ stages' = [stages EXCEPT ![i] = Torn]
  /\ Goto(i, [generators[i] EXCEPT !.at = "write"])
  /\ Replace(i, Missing)

\* An old stage is removed; the new one is there, but not complete.
CleanStage(i) ==
  /\ At(i, "clean")
  /\ stages' = [stages EXCEPT ![i] = Torn]
  /\ Goto(i, [generators[i] EXCEPT !.at = "write"])
  /\ UNCHANGED <<batches, disturbed>>

WriteStage(i) ==
  /\ At(i, "write")
  /\ stages' = [stages EXCEPT ![i] = generators[i].batch]
  /\ Goto(i, [at |-> "remove"])
  /\ UNCHANGED <<batches, disturbed>>

\* The files of the old batch go one after the other.
TearOld(i) ==
  /\ At(i, "remove")
  /\ batches[i] # Missing
  /\ Replace(i, Torn)
  /\ Goto(i, [at |-> "removing"])
  /\ UNCHANGED stages

RemoveOld(i) ==
  /\ \/ At(i, "removing")
     \/ At(i, "remove") /\ batches[i] = Missing
  /\ Replace(i, Missing)
  /\ Goto(i, [at |-> "rename"])
  /\ UNCHANGED stages

RenameStage(i) ==
  /\ At(i, "rename")
  /\ Replace(i, stages[i])
  /\ stages' = [stages EXCEPT ![i] = Missing]
  /\ Goto(i, Idle)

CrashBatch(i) ==
  /\ generators[i] # Idle
  /\ Goto(i, Idle)
  /\ UNCHANGED <<directories, disturbed>>

(***************************************************************************)
(* People.                                                                 *)
(***************************************************************************)
\* partition-corpora, and the frequencies of it: another train partition, perhaps one that
\* was there before.
PartitionAgain ==
  /\ \E other \in DOMAIN Train \ {corpus} : corpus' = other
  /\ UNCHANGED <<decisions, specs, registered, evidence, builder, directories, generators,
                 started, history>>

DecisionsOn(i, candidates, verdict) ==
  [k \in DOMAIN candidates |->
     [type |-> "entry", source |-> i, status |-> verdict[candidates[k].token],
      target |-> KuwikiTarget(OriginOf(i, candidates), candidates[k]),
      evidence_rank |-> candidates[k].rank, dated |-> FALSE, reviewer |-> "r1",
      date |-> <<2026, 9, 17>>, notes |-> TRUE, evidence |-> TRUE,
      replacement |-> None, resolution |-> None]]

\* The decisions on the candidates there are; decided anew, they are another file.
Decide(i) ==
  /\ Start
  /\ Whole(batches[i])
  /\ \E v \in Verdicts :
       decisions' = [decisions EXCEPT ![i] = DecisionsOn(i, batches[i].candidates, v)]
  /\ UNCHANGED <<corpus, specs, registered, evidence, builder, directories, generators,
                 history>>

\* A data-builder that pins the batch as it is, or pins it anew.  Processes that run were
\* compiled with the pins they have.
Pin(i) ==
  /\ Whole(batches[i])
  /\ decisions[i] # <<>>
  /\ \E spec \in {SpecOf(batches[i].candidates, decisions[i])} :
       /\ spec # specs[i]
       /\ Accepted(i, spec, batches[i], decisions[i])
       /\ specs' = [specs EXCEPT ![i] = spec]
  /\ UNCHANGED <<corpus, decisions, registered, evidence, builder, directories, generators,
                 started, history>>

\* sources.toml lists the batch, and every process reads it from now on.
Register(i) ==
  /\ i \notin registered
  /\ specs[i] # Missing
  /\ Accepted(i, specs[i], batches[i], decisions[i])
  /\ registered' = registered \cup {i}
  /\ UNCHANGED <<corpus, decisions, specs, evidence, builder, directories, generators,
                 started, history>>

BuildNext ==
  \/ StartBuild \/ ResolveLexicon \/ TakeFingerprint \/ ReadCorpus
  \/ WriteSummary \/ WriteQueue \/ WriteArtifacts \/ CrashBuild

Verify(i) ==
  \/ StartBatch(i) \/ HashQueue(i) \/ CompareSummary(i) \/ CompareQueue(i)
  \/ ParseSummary(i) \/ CompareCorpus(i) \/ CompareLexicon(i)

Choose(i) ==
  OpenQueue(i) \/ ListPriors(i) \/ HashPrior(i) \/ ReopenPrior(i) \/ ChooseCandidates(i)

Stage(i) ==
  \/ CleanStage(i) \/ WriteStage(i) \/ TearOld(i) \/ RemoveOld(i) \/ RenameStage(i)
  \/ CrashBatch(i)

Next ==
  \/ BuildNext
  \/ \E i \in Batches : Verify(i) \/ Choose(i) \/ Stage(i) \/ Decide(i) \/ Pin(i) \/ Register(i)
  \/ PartitionAgain

Spec == Init /\ [][Next]_vars

(***************************************************************************)
(* Properties.                                                             *)
(***************************************************************************)
\* A generator that was not disturbed chooses from one build: its queue is that of the
\* corpus and the lexicon which its summary names, although evidence is three files
\* written in turn, builds die between them, and every file is hashed and opened in
\* different steps.  What disturbs is evidence written meanwhile, and a build that itself
\* read a corpus, or resolved a lexicon, other than the one it recorded (mixed).
EvidenceIsOneBuild ==
  \A i \in Batches :
    i \notin disturbed /\ (At(i, "list") \/ At(i, "prior") \/ At(i, "reopen")) =>
      generators[i].queue = QueueOf(Train[generators[i].summary.corpus],
                                    generators[i].summary.lexicon)

\* A batch of an undisturbed generator offers no word of the lexicon that there was when
\* it compared the fingerprint: evidence from before a registration is refused.
OffersAreUnknown ==
  \A i \in Batches :
    Whole(batches[i]) /\ batches[i].undisturbed =>
      TokensOf(batches[i].candidates) \cap Known(batches[i].verified) = {}

\* A batch of an undisturbed generator excludes every earlier batch that was registered
\* when it compared the lexicon, as it is pinned, and offers no word of those it excludes:
\* the exclusion goes by the directories there are, the registration by the pins in the
\* code, and other generators may be replacing the directories.
RegisteredWordsStayAssigned ==
  \A i \in Batches :
    Whole(batches[i]) /\ batches[i].undisturbed =>
      LET excluded == batches[i].manifest.excluded
      IN  /\ batches[i].pins \subseteq excluded
          /\ \A e \in excluded :
               TokensOf(e.candidates) \cap TokensOf(batches[i].candidates) = {}

\* A registered batch whose directory is not whole has a whole new one in its stage:
\* however often the generator is started and killed, the old directory goes only after
\* the new one is complete, and no generator gets to the stage while a registered batch
\* does not load.
StageOutlivesBatch ==
  \A i \in registered : ~Whole(batches[i]) => Whole(stages[i])

\* No word is a candidate of two batches: of those of batch 1 and batch 2,
\* test_no_repeat_assignment_invariants_and_error_cases says that the intersection "must
\* be empty", and the generator calls it a fault ("Historical duplicate detected",
\* kuwiki_batch.rs:708).  But it leaves out the words of earlier batches only.
WordsAssignedOnce ==
  \A i, j \in Batches :
    i < j /\ Whole(batches[i]) /\ Whole(batches[j]) =>
      TokensOf(batches[i].candidates) \cap TokensOf(batches[j].candidates) = {}
=============================================================================
