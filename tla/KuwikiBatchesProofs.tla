------------------------ MODULE KuwikiBatchesProofs ------------------------
(***************************************************************************)
(* The round of a Kuwiki batch, for any corpus, seed, verdicts and number  *)
(* of batches: a registered batch is never lost without a whole stage      *)
(* beside it, and a generator that nothing disturbed chooses from one      *)
(* build of the evidence, words that are neither known nor offered by a    *)
(* registered batch before it.                                             *)
(***************************************************************************)
EXTENDS KuwikiBatches, WordFacts

Fields == /\ DOMAIN batches = Batches
          /\ DOMAIN stages = Batches
          /\ DOMAIN generators = Batches
          /\ DOMAIN specs = Batches
          /\ registered \subseteq Batches
          /\ \A i \in registered : specs[i] # Missing

\* The steps of a generator up to the comparison of the lexicon.
Verifying(i) ==
  \E step \in {"hash queue", "summary entry", "queue entry", "parse", "corpus", "lexicon"} :
    At(i, step)

\* What a generator holds at its steps.
JobFields(i) ==
  /\ Verifying(i) => DOMAIN generators[i] = {"at", "known", "summary", "hash"}
  /\ ReadsPriors(i) => DOMAIN generators[i] = {"at", "hash", "summary", "verified", "pins",
                                               "queue", "priors", "excluded", "assigned"}
  /\ At(i, "clean") \/ At(i, "write") => DOMAIN generators[i] = {"at", "batch"}

Staged(i) == At(i, "remove") \/ At(i, "removing") \/ At(i, "rename")

\* What is about to be staged is whole, and so is the stage until it is renamed.
StagingIsWhole(i) ==
  /\ At(i, "clean") \/ At(i, "write") => Whole(generators[i].batch)
  /\ Staged(i) => Whole(stages[i])

Lost(i) == i \in registered /\ ~Whole(batches[i])

\* A lost batch is whole in its stage.  No generator is on its way to clean that up: one
\* that was started since the loss was compiled with the pin, which does not load.
LostIsStaged(i) ==
  Lost(i) => /\ Whole(stages[i])
             /\ ~ReadsPriors(i) /\ ~At(i, "clean") /\ ~At(i, "write")
             /\ Verifying(i) => generators[i].known[i] # Missing

IInv ==
  Fields /\ \A i \in Batches : JobFields(i) /\ StagingIsWhole(i) /\ LostIsStaged(i)

(***************************************************************************)
(* A step of one generator.                                                *)
(***************************************************************************)
\* It leaves the evidence, the pins and the other batches alone, and no generator that it
\* disturbs recovers; a generator that reads the batch it replaces is disturbed.
StepOf(i) ==
  /\ UNCHANGED <<people, evidence, builder, mixed>>
  /\ DOMAIN batches' = Batches /\ DOMAIN stages' = Batches /\ DOMAIN generators' = Batches
  /\ \A j \in Batches \ {i} :
       /\ batches'[j] = batches[j] /\ stages'[j] = stages[j] /\ generators'[j] = generators[j]
       /\ j \in disturbed => j \in disturbed'
       /\ i < j /\ ReadsPriors(j) /\ batches'[i] # batches[i] => j \in disturbed'

LEMMA GeneratorStep ==
  ASSUME Fields, NEW i \in Batches, Verify(i) \/ Choose(i) \/ Stage(i)
  PROVE  StepOf(i)
<1> USE DEF Fields
<1>1. CASE StartBatch(i)
  BY <1>1 DEF StartBatch, StepOf, directories
<1>2. CASE HashQueue(i) \/ CompareSummary(i) \/ ParseSummary(i) \/ CompareCorpus(i)
           \/ CompareLexicon(i) \/ OpenQueue(i) \/ ListPriors(i) \/ HashPrior(i)
           \/ ReopenPrior(i)
  <2>1. UNCHANGED disturbed /\ \E accepted, job : Read(i, accepted, job)
    BY <1>2 DEF HashQueue, CompareSummary, ParseSummary, CompareCorpus, CompareLexicon,
                OpenQueue, ListPriors, HashPrior, ReopenPrior
  <2> QED
    BY <2>1 DEF Read, Goto, directories, StepOf
<1>3. CASE CompareQueue(i)
  BY <1>3 DEF CompareQueue, Read, Goto, directories, StepOf
<1>4. CASE ChooseCandidates(i)
  <2>1. disturbed' = disturbed \ {i} /\ \E accepted, job : Read(i, accepted, job)
    BY <1>4 DEF ChooseCandidates
  <2> QED
    BY <2>1 DEF Read, Goto, directories, StepOf
<1>5. CASE CleanStage(i) \/ WriteStage(i) \/ CrashBatch(i)
  BY <1>5 DEF CleanStage, WriteStage, CrashBatch, Goto, directories, StepOf
<1>6. CASE TearOld(i) \/ RemoveOld(i) \/ RenameStage(i)
  <2>1. /\ \E batch : Replace(i, batch)
        /\ \E job : Goto(i, job)
        /\ stages' = stages \/ stages' = [stages EXCEPT ![i] = Missing]
    BY <1>6 DEF TearOld, RemoveOld, RenameStage
  <2>2. /\ DOMAIN batches' = Batches
        /\ \A j \in Batches \ {i} :
             /\ batches'[j] = batches[j]
             /\ j \in disturbed => j \in disturbed'
             /\ i < j /\ ReadsPriors(j) /\ batches'[i] # batches[i] => j \in disturbed'
    BY <2>1 DEF Replace
  <2> QED
    BY <2>1, <2>2 DEF Goto, StepOf
<1> QED
  BY <1>1, <1>2, <1>3, <1>4, <1>5, <1>6 DEF Verify, Choose, Stage

\* When the lexicon can be resolved, every registered batch is as it is pinned.
LEMMA ResolvedAsPinned ==
  ASSUME Fields, NEW known, Lexicon(known) # Refused,
         NEW i \in registered, known[i] # Missing
  PROVE  Whole(batches[i]) /\ batches[i].candidates = known[i].candidates
<1> DEFINE pins == [j \in Batches |-> IF j \in registered THEN known[j] ELSE Missing]
<1>1. i \in DOMAIN pins /\ pins[i] = known[i]
  BY DEF Fields
<1>2. \A j \in {k \in DOMAIN pins : pins[k] # Missing} :
        Accepted(j, pins[j], batches[j], decisions[j])
  BY DEF Lexicon, ExperimentalLexicon
<1> HIDE DEF pins
<1>3. Accepted(i, known[i], batches[i], decisions[i])
  BY <1>1, <1>2
<1> QED
  BY <1>3 DEF Accepted, Pinned

\* What the steps of the verification make of the job.
LEMMA VerifyJob ==
  ASSUME IInv, NEW i \in Batches, Verify(i), ~StartBatch(i)
  PROVE  /\ UNCHANGED <<batches, stages>>
         /\ Verifying(i) /\ ~ReadsPriors(i)
         /\ \/ generators'[i] = Idle
            \/ /\ DOMAIN generators'[i] = {"at", "known", "summary", "hash"}
               /\ generators'[i].known = generators[i].known
               /\ generators'[i].at \in {"summary entry", "queue entry", "parse", "corpus",
                                         "lexicon"}
            \/ /\ CompareLexicon(i)
               /\ Lexicon(generators[i].known) # Refused
               /\ generators[i].summary.lexicon = Lexicon(generators[i].known)
               /\ generators'[i] =
                    VerifiedJob(generators[i].hash, generators[i].summary,
                                Lexicon(generators[i].known),
                                PinsBefore(i, generators[i].known))
<1>1. DOMAIN generators = Batches
  BY DEF IInv, Fields
<1>2. Verifying(i) /\ ~ReadsPriors(i) /\ DOMAIN generators[i] = {"at", "known", "summary", "hash"}
  BY DEF IInv, JobFields, Verify, HashQueue, CompareSummary, CompareQueue, ParseSummary,
         CompareCorpus, CompareLexicon, Verifying, ReadsPriors, At
<1>3. CASE CompareLexicon(i)
  <2>1. PICK lexicon \in {Lexicon(generators[i].known)} :
          Read(i, lexicon # Refused /\ generators[i].summary.lexicon = lexicon,
               VerifiedJob(generators[i].hash, generators[i].summary, lexicon,
                           PinsBefore(i, generators[i].known)))
    BY <1>3 DEF CompareLexicon
  <2> QED
    BY <1>1, <1>2, <1>3, <2>1 DEF Read, Goto, directories
<1>4. CASE ~CompareLexicon(i)
  <2>1. \/ HashQueue(i) \/ CompareSummary(i) \/ CompareQueue(i) \/ ParseSummary(i)
        \/ CompareCorpus(i)
    BY <1>4 DEF Verify
  <2>2. /\ UNCHANGED <<batches, stages>>
        /\ \/ generators'[i] = Idle
           \/ generators'[i] = [generators[i] EXCEPT !.at = "summary entry",
                                                     !.hash = evidence.queue]
           \/ generators'[i] = [generators[i] EXCEPT !.at = "queue entry"]
           \/ generators'[i] = [generators[i] EXCEPT !.at = "parse"]
           \/ generators'[i] = [generators[i] EXCEPT !.at = "corpus",
                                                     !.summary = evidence.summary]
           \/ generators'[i] = [generators[i] EXCEPT !.at = "lexicon"]
    BY <1>1, <2>1 DEF HashQueue, CompareSummary, CompareQueue, ParseSummary, CompareCorpus,
                      Read, Goto, directories
  <2> QED
    BY <1>2, <2>2
<1> QED
  BY <1>3, <1>4

\* What the steps of the choice make of it.
LEMMA ChooseJob ==
  ASSUME IInv, NEW i \in Batches, Choose(i)
  PROVE  /\ UNCHANGED <<batches, stages>>
         /\ ReadsPriors(i)
         /\ \/ generators'[i] = Idle
            \/ /\ disturbed' = disturbed
               /\ DOMAIN generators'[i] = {"at", "hash", "summary", "verified", "pins",
                                           "queue", "priors", "excluded", "assigned"}
               /\ generators'[i].summary = generators[i].summary
               /\ generators'[i].verified = generators[i].verified
               /\ generators'[i].pins = generators[i].pins
               /\ generators'[i].queue = (IF At(i, "open") THEN evidence.queue
                                           ELSE generators[i].queue)
               /\ generators'[i].at \in {"list", "prior", "reopen"}
            \/ /\ At(i, "prior") /\ generators[i].priors = {}
               /\ disturbed' = disturbed \ {i}
               /\ \E chosen : /\ chosen = Chosen(i, generators[i].queue, generators[i].assigned)
                              /\ chosen # Refused
                              /\ generators'[i] =
                                   [at |-> "clean",
                                    batch |-> BatchOf(i, chosen, generators[i], i \notin disturbed)]
<1>1. DOMAIN generators = Batches
  BY DEF IInv, Fields
<1>2. /\ ReadsPriors(i)
      /\ DOMAIN generators[i] = {"at", "hash", "summary", "verified", "pins", "queue",
                                 "priors", "excluded", "assigned"}
  BY DEF IInv, JobFields, Choose, OpenQueue, ListPriors, HashPrior, ReopenPrior,
         ChooseCandidates, ReadsPriors, At
<1>3. CASE ChooseCandidates(i)
  <2>1. PICK chosen \in {Chosen(i, generators[i].queue, generators[i].assigned)} :
          Read(i, chosen # Refused,
               [at |-> "clean", batch |-> BatchOf(i, chosen, generators[i], i \notin disturbed)])
    BY <1>3 DEF ChooseCandidates
  <2>2. At(i, "prior") /\ generators[i].priors = {} /\ disturbed' = disturbed \ {i}
    BY <1>3 DEF ChooseCandidates
  <2> QED
    BY <1>1, <1>2, <2>1, <2>2 DEF Read, Goto, directories
<1>4. CASE ~ChooseCandidates(i)
  <2>0. disturbed' = disturbed
    BY <1>4 DEF Choose, OpenQueue, ListPriors, HashPrior, ReopenPrior
  <2>1. OpenQueue(i) \/ ListPriors(i) \/ HashPrior(i) \/ ReopenPrior(i)
    BY <1>4 DEF Choose
  <2>2. CASE OpenQueue(i) \/ ListPriors(i)
    <3>1. /\ UNCHANGED <<batches, stages>>
          /\ \/ generators'[i] = Idle
             \/ /\ At(i, "open")
                /\ generators'[i] = [generators[i] EXCEPT !.at = "list", !.queue = evidence.queue]
             \/ /\ ~At(i, "open")
                /\ generators'[i] = [generators[i] EXCEPT !.at = "prior",
                                                          !.priors = Priors(batches, i)]
      BY <1>1, <2>2 DEF OpenQueue, ListPriors, Read, Goto, directories, At
    <3> QED
      BY <1>2, <2>0, <3>1
  <2>3. CASE HashPrior(i)
    <3>1. PICK j \in Batches :
            Read(i, Whole(batches[j]) /\ batches[j].manifest.batch = j,
                 [generators[i] EXCEPT !.at = "reopen", !.excluded =
                    @ \cup {[batch |-> j, candidates |-> batches[j].candidates]}])
      BY <2>3 DEF HashPrior
    <3>2. ~At(i, "open")
      BY <2>3 DEF HashPrior, At
    <3> QED
      BY <1>1, <1>2, <2>0, <3>1, <3>2 DEF Read, Goto, directories
  <2>4. CASE ReopenPrior(i)
    <3>1. PICK j \in Batches :
            Read(i, Whole(batches[j])
                      /\ PriorAccepted(j, batches[j].candidates, generators[i].assigned),
                 [generators[i] EXCEPT !.at = "prior", !.priors = @ \ {j},
                                       !.assigned = @ \cup TokensOf(batches[j].candidates)])
      BY <2>4 DEF ReopenPrior
    <3>2. ~At(i, "open")
      BY <2>4 DEF ReopenPrior, At
    <3> QED
      BY <1>1, <1>2, <2>0, <3>1, <3>2 DEF Read, Goto, directories
  <2> QED
    BY <2>1, <2>2, <2>3, <2>4
<1> QED
  BY <1>3, <1>4

(***************************************************************************)
(* The invariant.                                                          *)
(***************************************************************************)
LEMMA InitIInv == Init => IInv
<1> SUFFICES ASSUME Init PROVE IInv
  OBVIOUS
<1>1. Fields
  BY DEF Init, Fields
<1>2. \A i \in Batches : generators[i] = Idle /\ i \notin registered
  BY DEF Init
<1> QED
  BY <1>1, <1>2 DEF IInv, JobFields, StagingIsWhole, LostIsStaged, Verifying, ReadsPriors,
                    Staged, At, Lost

\* What is left to show of a step of one generator is about its batch.
LEMMA OneBatch ==
  ASSUME IInv, NEW i \in Batches, StepOf(i),
         JobFields(i)', StagingIsWhole(i)', LostIsStaged(i)'
  PROVE  IInv'
<1>1. Fields'
  BY DEF IInv, Fields, StepOf, people
<1>2. ASSUME NEW j \in Batches, j # i
      PROVE  JobFields(j)' /\ StagingIsWhole(j)' /\ LostIsStaged(j)'
  <2>1. /\ generators'[j] = generators[j] /\ batches'[j] = batches[j] /\ stages'[j] = stages[j]
        /\ registered' = registered
    BY <1>2 DEF StepOf, people
  <2>2. JobFields(j) /\ StagingIsWhole(j) /\ LostIsStaged(j)
    BY DEF IInv
  <2> QED
    BY <2>1, <2>2 DEF JobFields, StagingIsWhole, LostIsStaged, Verifying, ReadsPriors, Staged,
                      At, Lost
<1> QED
  BY <1>1, <1>2 DEF IInv

LEMMA StepIInv == IInv /\ [Next]_vars => IInv'
<1> SUFFICES ASSUME IInv, [Next]_vars PROVE IInv'
  OBVIOUS
<1>1. CASE UNCHANGED vars
  BY <1>1 DEF IInv, Fields, JobFields, StagingIsWhole, LostIsStaged, Verifying, ReadsPriors,
              Staged, At, Lost, vars, people, directories, history
<1>2. CASE BuildNext \/ PartitionAgain \/ \E i \in Batches : Decide(i)
  <2>1. UNCHANGED <<specs, registered, batches, stages, generators>>
    BY <1>2 DEF BuildNext, StartBuild, ResolveLexicon, TakeFingerprint, ReadCorpus,
                WriteSummary, WriteQueue, WriteArtifacts, WriteEvidence, CrashBuild, Build,
                PartitionAgain, Decide, people, directories
  <2> QED
    BY <2>1 DEF IInv, Fields, JobFields, StagingIsWhole, LostIsStaged, Verifying, ReadsPriors,
                Staged, At, Lost
<1>3. ASSUME NEW i \in Batches, Pin(i) PROVE IInv'
  <2>1. /\ UNCHANGED <<registered, batches, stages, generators>>
        /\ specs' = [specs EXCEPT ![i] = SpecOf(batches[i].candidates, decisions[i])]
    BY <1>3 DEF Pin, directories
  <2>2. SpecOf(batches[i].candidates, decisions[i]) # Missing
    BY DEF SpecOf, Missing
  <2> HIDE DEF SpecOf, Missing
  <2>3. Fields'
    BY <2>1, <2>2 DEF IInv, Fields
  <2> QED
    BY <2>1, <2>3 DEF IInv, JobFields, StagingIsWhole, LostIsStaged, Verifying, ReadsPriors,
                      Staged, At, Lost
<1>4. ASSUME NEW i \in Batches, Register(i) PROVE IInv'
  <2>1. /\ UNCHANGED <<specs, batches, stages, generators>>
        /\ registered' = registered \cup {i} /\ specs[i] # Missing
    BY <1>4 DEF Register, directories
  <2>2. Whole(batches[i])
    BY <1>4 DEF Register, Accepted, Pinned
  <2>3. Fields'
    BY <2>1 DEF IInv, Fields
  <2> QED
    BY <2>1, <2>2, <2>3 DEF IInv, JobFields, StagingIsWhole, LostIsStaged, Verifying,
                            ReadsPriors, Staged, At, Lost
<1>5. ASSUME NEW i \in Batches, Verify(i) \/ Choose(i) \/ Stage(i) PROVE IInv'
  <2>0. StepOf(i) /\ registered' = registered
    <3>1. StepOf(i)
      BY <1>5, GeneratorStep DEF IInv
    <3> QED
      BY <3>1 DEF StepOf, people
  <2>1. CASE StartBatch(i)
    <3>1. /\ UNCHANGED <<batches, stages>> /\ generators[i] = Idle
          /\ DOMAIN generators'[i] = {"at", "known", "summary", "hash"}
          /\ generators'[i].at = "hash queue" /\ generators'[i].known = specs
      <4>1. DOMAIN generators = Batches
        BY DEF IInv, Fields
      <4> QED
        BY <2>1, <4>1 DEF StartBatch, directories
    <3>2. JobFields(i)' /\ StagingIsWhole(i)'
      BY <3>1 DEF JobFields, StagingIsWhole, Verifying, ReadsPriors, Staged, At
    <3>3. LostIsStaged(i)'
      BY <2>0, <3>1 DEF IInv, Fields, LostIsStaged, Lost, Verifying, ReadsPriors, At
    <3> QED
      BY <2>0, <3>2, <3>3, OneBatch
  <2>2. CASE Verify(i) /\ ~StartBatch(i)
    <3>1. /\ UNCHANGED <<batches, stages>> /\ Verifying(i) /\ ~ReadsPriors(i)
          /\ \/ generators'[i] = Idle
             \/ /\ DOMAIN generators'[i] = {"at", "known", "summary", "hash"}
                /\ generators'[i].known = generators[i].known
                /\ generators'[i].at \in {"summary entry", "queue entry", "parse", "corpus",
                                          "lexicon"}
             \/ /\ CompareLexicon(i)
                /\ Lexicon(generators[i].known) # Refused
                /\ generators'[i] =
                     VerifiedJob(generators[i].hash, generators[i].summary,
                                 Lexicon(generators[i].known),
                                 PinsBefore(i, generators[i].known))
      BY <2>2, VerifyJob
    <3>2. CASE generators'[i] = Idle
      <4>1. JobFields(i)' /\ StagingIsWhole(i)'
        BY <3>2 DEF JobFields, StagingIsWhole, Verifying, ReadsPriors, Staged, At
      <4>2. LostIsStaged(i)'
        BY <2>0, <3>1, <3>2 DEF IInv, LostIsStaged, Lost, Verifying, ReadsPriors, At
      <4> QED
        BY <2>0, <4>1, <4>2, OneBatch
    <3>3. CASE /\ DOMAIN generators'[i] = {"at", "known", "summary", "hash"}
               /\ generators'[i].known = generators[i].known
               /\ generators'[i].at \in {"summary entry", "queue entry", "parse", "corpus",
                                         "lexicon"}
      <4>1. JobFields(i)' /\ StagingIsWhole(i)'
        BY <3>3 DEF JobFields, StagingIsWhole, Verifying, ReadsPriors, Staged, At
      <4>2. LostIsStaged(i)'
        BY <2>0, <3>1, <3>3 DEF IInv, LostIsStaged, Lost, ReadsPriors, At
      <4> QED
        BY <2>0, <4>1, <4>2, OneBatch
    <3>4. CASE /\ Lexicon(generators[i].known) # Refused
               /\ generators'[i] =
                    VerifiedJob(generators[i].hash, generators[i].summary,
                                Lexicon(generators[i].known),
                                PinsBefore(i, generators[i].known))
      <4>1. /\ DOMAIN generators'[i] = {"at", "hash", "summary", "verified", "pins", "queue",
                                        "priors", "excluded", "assigned"}
            /\ generators'[i].at = "open"
        BY <3>4 DEF VerifiedJob
      <4>2. JobFields(i)' /\ StagingIsWhole(i)'
        BY <4>1 DEF JobFields, StagingIsWhole, Verifying, ReadsPriors, Staged, At
      <4>3. ~Lost(i)
        <5> SUFFICES ASSUME Lost(i) PROVE FALSE
          OBVIOUS
        <5>1. generators[i].known[i] # Missing /\ i \in registered
          BY <3>1 DEF IInv, LostIsStaged, Lost
        <5>2. Whole(batches[i])
          BY <3>4, <5>1, ResolvedAsPinned DEF IInv
        <5> QED
          BY <5>2 DEF Lost
      <4>4. LostIsStaged(i)'
        BY <2>0, <3>1, <4>3 DEF LostIsStaged, Lost
      <4> QED
        BY <2>0, <4>2, <4>4, OneBatch
    <3> QED
      BY <3>1, <3>2, <3>3, <3>4
  <2>3. CASE Choose(i)
    <3>1. /\ UNCHANGED <<batches, stages>> /\ ReadsPriors(i)
          /\ \/ generators'[i] = Idle
             \/ /\ DOMAIN generators'[i] = {"at", "hash", "summary", "verified", "pins",
                                            "queue", "priors", "excluded", "assigned"}
                /\ generators'[i].at \in {"list", "prior", "reopen"}
             \/ \E chosen : generators'[i] =
                   [at |-> "clean",
                    batch |-> BatchOf(i, chosen, generators[i], i \notin disturbed)]
      BY <2>3, ChooseJob
    <3>2. \/ generators'[i] = Idle
          \/ /\ DOMAIN generators'[i] = {"at", "hash", "summary", "verified", "pins",
                                         "queue", "priors", "excluded", "assigned"}
             /\ generators'[i].at \in {"list", "prior", "reopen"}
          \/ /\ DOMAIN generators'[i] = {"at", "batch"}
             /\ generators'[i].at = "clean"
             /\ Whole(generators'[i].batch)
      <4>1. \A chosen : Whole(BatchOf(i, chosen, generators[i], i \notin disturbed))
        BY DEF BatchOf, Whole
      <4>2. ASSUME NEW batch, generators'[i] = [at |-> "clean", batch |-> batch]
            PROVE  /\ DOMAIN generators'[i] = {"at", "batch"}
                   /\ generators'[i].at = "clean" /\ generators'[i].batch = batch
        BY <4>2
      <4> QED
        BY <3>1, <4>1, <4>2
    <3>3. JobFields(i)' /\ StagingIsWhole(i)'
      BY <3>2 DEF JobFields, StagingIsWhole, Verifying, ReadsPriors, Staged, At
    <3>4. ~Lost(i)
      BY <3>1 DEF IInv, LostIsStaged
    <3>5. LostIsStaged(i)'
      BY <2>0, <3>1, <3>4 DEF LostIsStaged, Lost
    <3> QED
      BY <2>0, <3>3, <3>5, OneBatch
  <2>4. CASE CleanStage(i)
    <3>1. /\ At(i, "clean") /\ UNCHANGED batches
          /\ generators'[i] = [generators[i] EXCEPT !.at = "write"]
      BY <2>4 DEF CleanStage, Goto, IInv, Fields
    <3>2. /\ DOMAIN generators'[i] = {"at", "batch"} /\ generators'[i].at = "write"
          /\ Whole(generators'[i].batch)
      BY <3>1 DEF IInv, JobFields, StagingIsWhole
    <3>3. JobFields(i)' /\ StagingIsWhole(i)'
      BY <3>2 DEF JobFields, StagingIsWhole, Verifying, ReadsPriors, Staged, At
    <3>4. LostIsStaged(i)'
      BY <2>0, <3>1 DEF IInv, LostIsStaged, Lost
    <3> QED
      BY <2>0, <3>3, <3>4, OneBatch
  <2>5. CASE WriteStage(i)
    <3>1. /\ At(i, "write") /\ UNCHANGED batches /\ stages'[i] = generators[i].batch
          /\ generators'[i] = [at |-> "remove"]
      BY <2>5 DEF WriteStage, Goto, IInv, Fields
    <3>2. Whole(stages'[i]) /\ generators'[i].at = "remove"
      BY <3>1 DEF IInv, StagingIsWhole
    <3>3. JobFields(i)' /\ StagingIsWhole(i)'
      BY <3>2 DEF JobFields, StagingIsWhole, Verifying, ReadsPriors, At
    <3>4. LostIsStaged(i)'
      BY <2>0, <3>1 DEF IInv, LostIsStaged, Lost
    <3> QED
      BY <2>0, <3>3, <3>4, OneBatch
  <2>6. CASE TearOld(i) \/ RemoveOld(i)
    <3>1. /\ Staged(i) /\ UNCHANGED stages
          /\ generators'[i] \in {[at |-> "removing"], [at |-> "rename"]}
      BY <2>6 DEF TearOld, RemoveOld, Goto, Staged, IInv, Fields
    <3>2. Whole(stages'[i]) /\ generators'[i].at \in {"removing", "rename"}
      BY <3>1 DEF IInv, StagingIsWhole
    <3>3. JobFields(i)' /\ StagingIsWhole(i)' /\ LostIsStaged(i)'
      BY <3>2 DEF JobFields, StagingIsWhole, LostIsStaged, Verifying, ReadsPriors, At
    <3> QED
      BY <2>0, <3>3, OneBatch
  <2>7. CASE RenameStage(i)
    <3>1. At(i, "rename") /\ generators'[i] = Idle /\ batches'[i] = stages[i]
      BY <2>7 DEF RenameStage, Replace, Goto, IInv, Fields
    <3>2. Whole(batches'[i])
      BY <3>1 DEF IInv, StagingIsWhole, Staged
    <3>3. JobFields(i)' /\ StagingIsWhole(i)' /\ LostIsStaged(i)'
      BY <3>1, <3>2 DEF JobFields, StagingIsWhole, LostIsStaged, Lost, Verifying, ReadsPriors,
                        Staged, At
    <3> QED
      BY <2>0, <3>3, OneBatch
  <2>8. CASE CrashBatch(i)
    <3>1. generators'[i] = Idle /\ UNCHANGED <<batches, stages>>
      BY <2>8 DEF CrashBatch, Goto, directories, IInv, Fields
    <3>2. JobFields(i)' /\ StagingIsWhole(i)'
      BY <3>1 DEF JobFields, StagingIsWhole, Verifying, ReadsPriors, Staged, At
    <3>3. LostIsStaged(i)'
      BY <2>0, <3>1 DEF IInv, LostIsStaged, Lost, Verifying, ReadsPriors, At
    <3> QED
      BY <2>0, <3>2, <3>3, OneBatch
  <2> QED
    BY <1>5, <2>1, <2>2, <2>3, <2>4, <2>5, <2>6, <2>7, <2>8 DEF Stage
<1> QED
  BY <1>1, <1>2, <1>3, <1>4, <1>5 DEF Next

LEMMA AlwaysIInv == Spec => []IInv
BY InitIInv, StepIInv, PTL DEF Spec

\* A registered batch whose directory is not whole has a whole new one in its stage
\* (generate_kuwiki_review_batch, killed anywhere and started any number of times).
THEOREM BatchNeverLost == Spec => []StageOutlivesBatch
<1>1. IInv => StageOutlivesBatch
  BY DEF IInv, Fields, LostIsStaged, Lost, StageOutlivesBatch
<1> QED
  BY AlwaysIInv, <1>1, PTL

(***************************************************************************)
(* The evidence.                                                           *)
(*                                                                         *)
(* Whatever corpora come and go, a build that was not mixed has read the   *)
(* corpus and the lexicon that its summary names; it is the last one whose *)
(* hashes were written.  A generator that no writer disturbed has hashed,  *)
(* looked up, parsed and opened the same two files.                        *)
(***************************************************************************)
Good(summary, queue) ==
  /\ summary.corpus \in DOMAIN Train
  /\ queue = QueueOf(Train[summary.corpus], summary.lexicon)

Writing == BuilderAt("summary") \/ BuilderAt("queue") \/ BuilderAt("artifacts")

BuildInv ==
  /\ corpus \in DOMAIN Train
  /\ DOMAIN evidence = {"summary", "queue", "artifacts"}
  /\ Writing => /\ DOMAIN builder = {"at", "summary", "queue", "mixed"}
                /\ ~builder.mixed => Good(builder.summary, builder.queue)
  /\ BuilderAt("queue") \/ BuilderAt("artifacts") => evidence.summary = builder.summary
  /\ BuilderAt("artifacts") => evidence.queue = builder.queue
  /\ ~mixed => Good(evidence.artifacts.summary, evidence.artifacts.queue)

Compared(i) == At(i, "corpus") \/ At(i, "lexicon") \/ At(i, "open")

Choosing(i) == At(i, "list") \/ At(i, "prior") \/ At(i, "reopen")

Evident(i) ==
  i \notin disturbed =>
    /\ At(i, "hash queue") \/ At(i, "summary entry") \/ At(i, "queue entry") \/ Compared(i)
         => generators[i].summary = evidence.summary
    /\ At(i, "summary entry") \/ At(i, "queue entry") => generators[i].hash = evidence.queue
    /\ At(i, "queue entry") => evidence.artifacts.summary = generators[i].summary
    /\ At(i, "parse") \/ Compared(i) => Good(evidence.summary, evidence.queue)
    /\ ReadsPriors(i) => generators[i].verified = generators[i].summary.lexicon
    /\ Choosing(i) => Good(generators[i].summary, generators[i].queue)

EInv == BuildInv /\ \A i \in Batches : Evident(i)

LEMMA InitEInv == Init => EInv
<1> SUFFICES ASSUME Init PROVE EInv
  OBVIOUS
<1>1. PICK lexicon, queue : /\ queue = QueueOf(Train[1], lexicon)
                            /\ evidence = EvidenceOf([corpus |-> 1, lexicon |-> lexicon], queue)
  BY DEF Init
<1>2. corpus = 1 /\ corpus \in DOMAIN Train
  BY TrainAssumption DEF Init
<1>3. Good(evidence.artifacts.summary, evidence.artifacts.queue)
  BY <1>1, <1>2 DEF EvidenceOf, Good
<1>4. DOMAIN evidence = {"summary", "queue", "artifacts"}
  BY <1>1 DEF EvidenceOf
<1>5. BuildInv
  BY <1>2, <1>3, <1>4 DEF Init, BuildInv, Writing, BuilderAt
<1>6. \A i \in Batches : generators[i] = Idle
  BY DEF Init
<1> QED
  BY <1>5, <1>6 DEF EInv, Evident, Compared, Choosing, ReadsPriors, At

\* The builder's steps, as far as the evidence goes.
LEMMA StepBuildInv == BuildInv /\ [Next]_vars => BuildInv'
<1> SUFFICES ASSUME BuildInv, [Next]_vars PROVE BuildInv'
  OBVIOUS
<1>1. CASE UNCHANGED <<corpus, evidence, builder, mixed>>
  BY <1>1 DEF BuildInv, Writing, BuilderAt, Good
<1>2. CASE StartBuild \/ ResolveLexicon \/ TakeFingerprint \/ CrashBuild
  <2>1. /\ UNCHANGED <<corpus, evidence, mixed>>
        /\ builder' = Idle \/ builder'.at \in {"resolve", "fingerprint", "read"}
    BY <1>2 DEF StartBuild, ResolveLexicon, TakeFingerprint, CrashBuild, Build, people,
                history
  <2> QED
    BY <2>1 DEF BuildInv, Writing, BuilderAt, Good
<1>3. CASE ReadCorpus
  <2>1. /\ UNCHANGED <<corpus, evidence, mixed>>
        /\ DOMAIN builder' = {"at", "summary", "queue", "mixed"}
        /\ builder'.at = "summary"
        /\ builder'.summary = builder.summary
        /\ builder'.queue = QueueOf(Train[corpus], builder.lexicon)
        /\ builder'.mixed = (\/ builder.summary.corpus # corpus
                             \/ builder.summary.lexicon # builder.lexicon)
    BY <1>3 DEF ReadCorpus, Build, people, history
  <2>2. ~builder'.mixed => Good(builder'.summary, builder'.queue)
    BY <2>1 DEF BuildInv, Good
  <2> QED
    BY <2>1, <2>2 DEF BuildInv, Writing, BuilderAt, Good
<1>4. CASE WriteSummary
  <2>1. /\ UNCHANGED <<corpus, mixed>>
        /\ evidence' = [evidence EXCEPT !.summary = builder.summary]
        /\ BuilderAt("summary")
        /\ builder' = [builder EXCEPT !.at = "queue"]
    BY <1>4 DEF WriteSummary, WriteEvidence, Build, people
  <2>2. /\ DOMAIN builder' = {"at", "summary", "queue", "mixed"}
        /\ builder'.at = "queue" /\ builder'.summary = builder.summary
        /\ builder'.queue = builder.queue /\ builder'.mixed = builder.mixed
        /\ DOMAIN evidence' = {"summary", "queue", "artifacts"}
        /\ evidence'.summary = builder.summary /\ evidence'.artifacts = evidence.artifacts
    BY <2>1 DEF BuildInv, Writing
  <2> QED
    BY <2>1, <2>2 DEF BuildInv, Writing, BuilderAt, Good
<1>5. CASE WriteQueue
  <2>1. /\ UNCHANGED <<corpus, mixed>>
        /\ evidence' = [evidence EXCEPT !.queue = builder.queue]
        /\ BuilderAt("queue")
        /\ builder' = [builder EXCEPT !.at = "artifacts"]
    BY <1>5 DEF WriteQueue, WriteEvidence, Build, people
  <2>2. /\ DOMAIN builder' = {"at", "summary", "queue", "mixed"}
        /\ builder'.at = "artifacts" /\ builder'.summary = builder.summary
        /\ builder'.queue = builder.queue /\ builder'.mixed = builder.mixed
        /\ DOMAIN evidence' = {"summary", "queue", "artifacts"}
        /\ evidence'.queue = builder.queue /\ evidence'.summary = evidence.summary
        /\ evidence'.artifacts = evidence.artifacts
    BY <2>1 DEF BuildInv, Writing
  <2> QED
    BY <2>1, <2>2 DEF BuildInv, Writing, BuilderAt, Good
<1>6. CASE WriteArtifacts
  <2>1. /\ corpus' = corpus /\ mixed' = builder.mixed /\ builder' = Idle
        /\ evidence' = [evidence EXCEPT !.artifacts = [summary |-> evidence.summary,
                                                       queue |-> evidence.queue]]
        /\ BuilderAt("artifacts")
    BY <1>6 DEF WriteArtifacts, Build, people
  <2>2. /\ DOMAIN evidence' = {"summary", "queue", "artifacts"}
        /\ evidence'.artifacts.summary = builder.summary
        /\ evidence'.artifacts.queue = builder.queue
    BY <2>1 DEF BuildInv
  <2>3. ~mixed' => Good(evidence'.artifacts.summary, evidence'.artifacts.queue)
    BY <2>1, <2>2 DEF BuildInv, Writing, Good
  <2> QED
    BY <2>1, <2>2, <2>3 DEF BuildInv, Writing, BuilderAt, Good
<1>7. CASE PartitionAgain
  <2>1. corpus' \in DOMAIN Train /\ UNCHANGED <<evidence, builder, mixed>>
    BY <1>7 DEF PartitionAgain, history
  <2> QED
    BY <2>1 DEF BuildInv, Writing, BuilderAt, Good
<1>8. ASSUME NEW i \in Batches, Decide(i) \/ Pin(i) \/ Register(i)
      PROVE  UNCHANGED <<corpus, evidence, builder, mixed>>
  BY <1>8 DEF Decide, Pin, Register, history
<1>9. ASSUME NEW i \in Batches, Verify(i) \/ Choose(i) \/ Stage(i)
      PROVE  UNCHANGED <<corpus, evidence, builder, mixed>>
  BY <1>9 DEF Verify, StartBatch, HashQueue, CompareSummary, CompareQueue, ParseSummary,
              CompareCorpus, CompareLexicon, Choose, OpenQueue, ListPriors, HashPrior,
              ReopenPrior, ChooseCandidates, Stage, CleanStage, WriteStage, TearOld,
              RemoveOld, RenameStage, CrashBatch, Read, Goto, people
<1>10. CASE UNCHANGED vars
  BY <1>1, <1>10 DEF vars, people, history
<1> QED
  BY <1>1, <1>2, <1>3, <1>4, <1>5, <1>6, <1>7, <1>8, <1>9, <1>10 DEF Next, BuildNext

\* The other processes leave a generator its evidence, or disturb it.
LEMMA EvidentElsewhere ==
  ASSUME NEW i \in Batches, Evident(i), generators'[i] = generators[i],
         i \in disturbed => i \in disturbed',
         \/ UNCHANGED evidence
         \/ i \in disturbed'
         \/ /\ evidence'.summary = evidence.summary /\ evidence'.queue = evidence.queue
            /\ evidence'.artifacts.summary = evidence.summary
         \/ ~ReadsEvidence(i)
  PROVE  Evident(i)'
<1>1. CASE i \in disturbed'
  BY <1>1 DEF Evident
<1>2. CASE i \notin disturbed' /\ UNCHANGED evidence
  BY <1>2 DEF Evident, Compared, Choosing, ReadsPriors, At, Good
<1>3. CASE /\ i \notin disturbed'
           /\ evidence'.summary = evidence.summary /\ evidence'.queue = evidence.queue
           /\ evidence'.artifacts.summary = evidence.summary
  BY <1>3 DEF Evident, Compared, Choosing, ReadsPriors, At, Good
<1>4. CASE i \notin disturbed' /\ ~ReadsEvidence(i)
  BY <1>4 DEF Evident, ReadsEvidence, Compared, Choosing, ReadsPriors, At, Good
<1> QED
  BY <1>1, <1>2, <1>3, <1>4

\* A generator's own step is to the next file, or to the next comparison of it.
LEMMA EvidentOwn ==
  ASSUME IInv, EInv, NEW i \in Batches, Verify(i) \/ Choose(i) \/ Stage(i)
  PROVE  Evident(i)'
<1>0. evidence' = evidence /\ DOMAIN generators = Batches /\ Evident(i)
  <2>1. StepOf(i)
    BY GeneratorStep DEF IInv
  <2> QED
    BY <2>1 DEF StepOf, IInv, Fields, EInv
<1>1. CASE generators'[i] = Idle
  BY <1>1 DEF Evident, Compared, Choosing, ReadsPriors, At
<1>2. CASE StartBatch(i)
  <2>1. generators'[i].at = "hash queue" /\ generators'[i].summary = evidence.summary
    BY <1>0, <1>2 DEF StartBatch
  <2> QED
    BY <1>0, <2>1 DEF Evident, Compared, Choosing, ReadsPriors, At
<1>3. CASE Verify(i) /\ ~StartBatch(i) /\ generators'[i] # Idle
  <2>1. DOMAIN generators[i] = {"at", "known", "summary", "hash"}
    BY <1>3, VerifyJob DEF IInv, JobFields
  <2>2. CASE HashQueue(i)
    <3>1. /\ At(i, "hash queue") /\ UNCHANGED disturbed
          /\ generators'[i] = [generators[i] EXCEPT !.at = "summary entry",
                                                    !.hash = evidence.queue]
      BY <1>0, <1>3, <2>2 DEF HashQueue, Read, Goto
    <3>2. /\ generators'[i].at = "summary entry" /\ generators'[i].hash = evidence.queue
          /\ generators'[i].summary = generators[i].summary
      BY <2>1, <3>1
    <3> QED
      BY <1>0, <3>1, <3>2 DEF Evident, Compared, Choosing, ReadsPriors, At
  <2>3. CASE CompareSummary(i)
    <3>1. /\ At(i, "summary entry") /\ UNCHANGED disturbed
          /\ evidence.artifacts.summary = generators[i].summary
          /\ generators'[i] = [generators[i] EXCEPT !.at = "queue entry"]
      BY <1>0, <1>3, <2>3 DEF CompareSummary, Read, Goto
    <3>2. /\ generators'[i].at = "queue entry" /\ generators'[i].hash = generators[i].hash
          /\ generators'[i].summary = generators[i].summary
      BY <2>1, <3>1
    <3> QED
      BY <1>0, <3>1, <3>2 DEF Evident, Compared, Choosing, ReadsPriors, At
  <2>4. CASE CompareQueue(i)
    <3>1. /\ At(i, "queue entry")
          /\ i \notin disturbed' => ~mixed /\ i \notin disturbed
          /\ evidence.artifacts.queue = generators[i].hash
          /\ generators'[i] = [generators[i] EXCEPT !.at = "parse"]
      BY <1>0, <1>3, <2>4 DEF CompareQueue, Read, Goto
    <3>2. generators'[i].at = "parse"
      BY <2>1, <3>1
    <3>3. ASSUME i \notin disturbed' PROVE Good(evidence.summary, evidence.queue)
      BY <1>0, <3>1, <3>3 DEF Evident, EInv, BuildInv
    <3> QED
      BY <1>0, <3>2, <3>3 DEF Evident, Compared, Choosing, ReadsPriors, At, Good
  <2>5. CASE ParseSummary(i)
    <3>1. /\ At(i, "parse") /\ UNCHANGED disturbed
          /\ generators'[i] = [generators[i] EXCEPT !.at = "corpus",
                                                    !.summary = evidence.summary]
      BY <1>0, <1>3, <2>5 DEF ParseSummary, Read, Goto
    <3>2. generators'[i].at = "corpus" /\ generators'[i].summary = evidence.summary
      BY <2>1, <3>1
    <3> QED
      BY <1>0, <3>1, <3>2 DEF Evident, Compared, Choosing, ReadsPriors, At, Good
  <2>6. CASE CompareCorpus(i)
    <3>1. /\ At(i, "corpus") /\ UNCHANGED disturbed
          /\ generators'[i] = [generators[i] EXCEPT !.at = "lexicon"]
      BY <1>0, <1>3, <2>6 DEF CompareCorpus, Read, Goto
    <3>2. generators'[i].at = "lexicon" /\ generators'[i].summary = generators[i].summary
      BY <2>1, <3>1
    <3> QED
      BY <1>0, <3>1, <3>2 DEF Evident, Compared, Choosing, ReadsPriors, At, Good
  <2>7. CASE CompareLexicon(i)
    <3>1. At(i, "lexicon") /\ UNCHANGED disturbed
      BY <2>7 DEF CompareLexicon
    <3>2. PICK lexicon \in {Lexicon(generators[i].known)} :
            /\ generators[i].summary.lexicon = lexicon
            /\ generators'[i] = VerifiedJob(generators[i].hash, generators[i].summary, lexicon,
                                            PinsBefore(i, generators[i].known))
      BY <1>0, <1>3, <2>7 DEF CompareLexicon, Read, Goto
    <3>3. /\ generators'[i].at = "open" /\ generators'[i].summary = generators[i].summary
          /\ generators'[i].verified = generators[i].summary.lexicon
      BY <3>2 DEF VerifiedJob
    <3> QED
      BY <1>0, <3>1, <3>3 DEF Evident, Compared, Choosing, ReadsPriors, At, Good
  <2> QED
    BY <1>3, <2>2, <2>3, <2>4, <2>5, <2>6, <2>7 DEF Verify
<1>4. CASE Choose(i) /\ generators'[i] # Idle
  <2>1. CASE /\ disturbed' = disturbed
             /\ generators'[i].summary = generators[i].summary
             /\ generators'[i].verified = generators[i].verified
             /\ generators'[i].queue = (IF At(i, "open") THEN evidence.queue
                                         ELSE generators[i].queue)
             /\ generators'[i].at \in {"list", "prior", "reopen"}
    <3>1. ReadsPriors(i)
      BY <1>4, ChooseJob
    <3>2. ASSUME i \notin disturbed'
          PROVE  /\ generators'[i].verified = generators'[i].summary.lexicon
                 /\ Good(generators'[i].summary, generators'[i].queue)
      <4>1. CASE At(i, "open")
        BY <1>0, <2>1, <3>1, <3>2, <4>1 DEF Evident, Compared
      <4>2. CASE ~At(i, "open")
        BY <1>0, <2>1, <3>1, <3>2, <4>2 DEF Evident, Choosing, ReadsPriors
      <4> QED
        BY <4>1, <4>2
    <3> QED
      BY <2>1, <3>2 DEF Evident, Compared, Choosing, ReadsPriors, At, Good
  <2>2. CASE \E batch : generators'[i] = [at |-> "clean", batch |-> batch]
    <3>1. generators'[i].at = "clean"
      BY <2>2
    <3> QED
      BY <3>1 DEF Evident, Compared, Choosing, ReadsPriors, At
  <2> QED
    BY <1>4, <2>1, <2>2, ChooseJob
<1>5. CASE Stage(i)
  <2>1. \/ generators'[i] = Idle
        \/ generators'[i].at \in {"write", "remove", "removing", "rename"}
    <3>1. CASE CleanStage(i)
      <4>1. DOMAIN generators[i] = {"at", "batch"}
        BY <3>1 DEF CleanStage, IInv, JobFields
      <4> QED
        BY <1>0, <3>1, <4>1 DEF CleanStage, Goto
    <3>2. CASE WriteStage(i) \/ TearOld(i) \/ RemoveOld(i) \/ RenameStage(i) \/ CrashBatch(i)
      BY <1>0, <3>2 DEF WriteStage, TearOld, RemoveOld, RenameStage, CrashBatch, Goto
    <3> QED
      BY <1>5, <3>1, <3>2 DEF Stage
  <2> QED
    BY <2>1 DEF Evident, Compared, Choosing, ReadsPriors, At
<1> QED
  BY <1>1, <1>2, <1>3, <1>4, <1>5

LEMMA StepEInv == IInv /\ EInv /\ [Next]_vars => EInv'
<1> SUFFICES ASSUME IInv, EInv, [Next]_vars PROVE EInv'
  OBVIOUS
<1>1. BuildInv'
  BY StepBuildInv DEF EInv
<1>2. ASSUME NEW i \in Batches PROVE Evident(i)'
  <2>0. Evident(i) /\ i \in DOMAIN generators
    BY DEF EInv, IInv, Fields
  <2>1. CASE \/ UNCHANGED vars
             \/ StartBuild \/ ResolveLexicon \/ TakeFingerprint \/ ReadCorpus \/ CrashBuild
             \/ PartitionAgain
             \/ \E j \in Batches : Decide(j) \/ Pin(j) \/ Register(j)
    <3>1. UNCHANGED <<evidence, generators, disturbed>>
      BY <2>1 DEF StartBuild, ResolveLexicon, TakeFingerprint, ReadCorpus, CrashBuild, Build,
                  PartitionAgain, Decide, Pin, Register, vars, history
    <3> QED
      BY <2>0, <3>1, EvidentElsewhere
  <2>2. CASE WriteSummary \/ WriteQueue
    <3>1. generators' = generators /\ \E written : WriteEvidence(written)
      BY <2>2 DEF WriteSummary, WriteQueue, Build
    <3>2. /\ i \in disturbed => i \in disturbed'
          /\ UNCHANGED evidence \/ i \in disturbed' \/ ~ReadsEvidence(i)
      BY <3>1 DEF WriteEvidence
    <3> QED
      BY <2>0, <3>1, <3>2, EvidentElsewhere
  <2>3. CASE WriteArtifacts
    <3>1. /\ UNCHANGED <<generators, disturbed>>
          /\ evidence' = [evidence EXCEPT !.artifacts = [summary |-> evidence.summary,
                                                         queue |-> evidence.queue]]
      BY <2>3 DEF WriteArtifacts, Build
    <3>2. /\ evidence'.summary = evidence.summary /\ evidence'.queue = evidence.queue
          /\ evidence'.artifacts.summary = evidence.summary
      BY <3>1 DEF EInv, BuildInv
    <3> QED
      BY <2>0, <3>1, <3>2, EvidentElsewhere
  <2>4. ASSUME NEW j \in Batches, Verify(j) \/ Choose(j) \/ Stage(j) PROVE Evident(i)'
    <3>1. CASE j = i
      BY <2>4, <3>1, EvidentOwn
    <3>2. CASE j # i
      <4>1. StepOf(j)
        BY <2>4, GeneratorStep DEF IInv
      <4>2. generators'[i] = generators[i] /\ evidence' = evidence
            /\ (i \in disturbed => i \in disturbed')
        BY <3>2, <4>1 DEF StepOf
      <4> QED
        BY <2>0, <4>2, EvidentElsewhere
    <3> QED
      BY <3>1, <3>2
  <2> QED
    BY <2>1, <2>2, <2>3, <2>4 DEF Next, BuildNext
<1> QED
  BY <1>1, <1>2 DEF EInv

LEMMA AlwaysEInv == Spec => [](IInv /\ EInv)
BY InitIInv, StepIInv, InitEInv, StepEInv, PTL DEF Spec

\* A generator that was not disturbed chooses from a queue that is of the corpus and the
\* lexicon which its summary names (verify_vocabulary_evidence_provenance).
THEOREM AcceptedEvidenceIsOneBuild == Spec => []EvidenceIsOneBuild
<1>1. EInv => EvidenceIsOneBuild
  BY DEF EInv, Evident, Choosing, Good, EvidenceIsOneBuild
<1> QED
  BY AlwaysEInv, <1>1, PTL

(***************************************************************************)
(* The queue: the unknown words of the corpus, each of them its own        *)
(* normalization.                                                          *)
(***************************************************************************)
Occurrences(train) == UNION {{i} \X DOMAIN train[i].tokens : i \in OwnDocuments(train)}

LEMMA OccurrencesAreFinite ==
  ASSUME NEW train \in Range(Train)
  PROVE  /\ IsFiniteSet(Occurrences(train))
         /\ \A p \in Occurrences(train) : train[p[1]].tokens[p[2]] \in Seq(Nat)
<1> DEFINE own == OwnDocuments(train)
           at == [i \in own |-> {i} \X DOMAIN train[i].tokens]
<1>1. \A i \in DOMAIN train : train[i].tokens \in Seq(Seq(Nat))
  BY TrainAssumption DEF Range
<1>2. IsFiniteSet(own)
  <2>1. IsFiniteSet(DOMAIN train)
    <3>1. DOMAIN train = 1..Len(train) /\ Len(train) \in Nat
      BY TrainAssumption
    <3> QED
      BY <3>1, FS_Interval
  <2>2. own \in SUBSET DOMAIN train
    BY DEF OwnDocuments
  <2> QED
    BY <2>1, <2>2, FS_Subset
<1>3. \A i \in own : IsFiniteSet(at[i])
  <2> SUFFICES ASSUME NEW i \in own PROVE IsFiniteSet({i} \X DOMAIN train[i].tokens)
    OBVIOUS
  <2>1. train[i].tokens \in Seq(Seq(Nat))
    BY <1>1 DEF OwnDocuments
  <2>2. DOMAIN train[i].tokens = 1..Len(train[i].tokens) /\ Len(train[i].tokens) \in Nat
    BY <2>1
  <2>3. IsFiniteSet(DOMAIN train[i].tokens)
    BY <2>2, FS_Interval
  <2>4. IsFiniteSet({i})
    BY FS_Singleton
  <2> QED
    BY <2>3, <2>4, FS_Product
<1>4. IsFiniteSet({at[i] : i \in own})
  <2> HIDE DEF own
  <2>1. DOMAIN at = own
    OBVIOUS
  <2> HIDE DEF at
  <2> QED
    BY <1>2, <2>1, FiniteImage
<1>5. IsFiniteSet(UNION {at[i] : i \in own})
  <2> HIDE DEF at, own
  <2>1. \A T \in {at[i] : i \in own} : IsFiniteSet(T)
    BY <1>3
  <2> QED
    BY <1>4, <2>1, FS_UNION
<1>6. Occurrences(train) = UNION {at[i] : i \in own}
  BY DEF Occurrences
<1>7. ASSUME NEW p \in Occurrences(train) PROVE train[p[1]].tokens[p[2]] \in Seq(Nat)
  <2>1. PICK i \in own : p \in {i} \X DOMAIN train[i].tokens
    BY DEF Occurrences
  <2>2. train[i].tokens \in Seq(Seq(Nat)) /\ p[1] = i /\ p[2] \in DOMAIN train[i].tokens
    BY <1>1, <2>1 DEF OwnDocuments
  <2> QED
    BY <2>2
<1> QED
  BY <1>5, <1>6, <1>7

LEMMA FrequencyFacts ==
  ASSUME NEW train \in Range(Train)
  PROVE  /\ IsFiniteSet(DOMAIN FrequenciesOf(train))
         /\ \A f \in DOMAIN FrequenciesOf(train) :
              /\ \E w \in Seq(Nat) : f = NormalizeText(w)
              /\ FrequenciesOf(train)[f].documents \in Nat
              /\ FrequenciesOf(train)[f].tokens \in Nat
<1> DEFINE tokens == Occurrences(train)
           form(t) == NormalizeText(train[t[1]].tokens[t[2]])
           forms == {form(t) : t \in tokens} \ {<<>>}
           of(f) == {t \in tokens : form(t) = f}
           freq == FrequenciesOf(train)
<1>1. freq = [f \in forms |-> [documents |-> Cardinality({t[1] : t \in of(f)}),
                               tokens    |-> Cardinality(of(f))]]
  BY DEF FrequenciesOf, Occurrences
<1>2. IsFiniteSet(tokens) /\ \A t \in tokens : train[t[1]].tokens[t[2]] \in Seq(Nat)
  BY OccurrencesAreFinite
<1>3. IsFiniteSet(forms)
  <2> DEFINE g == [t \in tokens |-> form(t)]
  <2>1. IsFiniteSet({g[t] : t \in DOMAIN g})
    <3>1. DOMAIN g = tokens
      OBVIOUS
    <3> HIDE DEF g, tokens
    <3> QED BY <1>2, <3>1, FiniteImage
  <2>2. forms \in SUBSET {g[t] : t \in DOMAIN g}
    <3> HIDE DEF tokens
    <3> QED OBVIOUS
  <2> HIDE DEF forms, g
  <2> QED
    BY <2>1, <2>2, FS_Subset
<1>4. ASSUME NEW f \in forms
      PROVE  Cardinality({t[1] : t \in of(f)}) \in Nat /\ Cardinality(of(f)) \in Nat
  <2> DEFINE g == [t \in of(f) |-> t[1]]
  <2>1. IsFiniteSet(of(f))
    <3> HIDE DEF tokens, form
    <3> QED BY <1>2, FS_Subset
  <2>2. DOMAIN g = of(f) /\ {g[t] : t \in DOMAIN g} = {t[1] : t \in of(f)}
    <3> HIDE DEF of
    <3> QED OBVIOUS
  <2>3. IsFiniteSet({t[1] : t \in of(f)})
    <3>1. IsFiniteSet({g[t] : t \in DOMAIN g})
      <4> HIDE DEF g, of
      <4> QED BY <2>1, <2>2, FiniteImage
    <3> HIDE DEF g, of
    <3> QED BY <3>1, <2>2
  <2> HIDE DEF of
  <2> QED
    BY <2>1, <2>3, FS_CardinalityType
<1>5. ASSUME NEW f \in forms PROVE \E w \in Seq(Nat) : f = NormalizeText(w)
  BY <1>2
<1> QED
  <2>1. DOMAIN freq = forms
    BY <1>1
  <2>2. \A f \in forms : freq[f].documents \in Nat /\ freq[f].tokens \in Nat
    <3> HIDE DEF of, forms, freq
    <3> QED BY <1>1, <1>4
  <2> HIDE DEF forms
  <2> QED
    BY <1>3, <1>5, <2>1, <2>2

UnknownOf(train, lexicon) == Unknown(FrequenciesOf(train), lexicon)

\* What is offered is known by no form of the lexicon, and is its own normalization.
LEMMA UnknownFacts ==
  ASSUME NEW train \in Range(Train), NEW lexicon, NEW e \in UnknownOf(train, lexicon)
  PROVE  /\ e.token \in Seq(Nat) /\ e.documents \in Nat /\ e.tokens \in Nat
         /\ e.token \notin Known(lexicon)
         /\ NormalizeText(e.token) = e.token
         /\ \A d \in UnknownOf(train, lexicon) : d.token = e.token => d = e
<1> DEFINE freq == FrequenciesOf(train)
<1>1. PICK f \in DOMAIN freq :
        /\ f \notin Known(lexicon) /\ EligibleForReview(f)
        /\ e = [token |-> f, documents |-> freq[f].documents, tokens |-> freq[f].tokens]
  BY DEF UnknownOf, Unknown
<1>2. PICK w \in Seq(Nat) : f = NormalizeText(w)
  BY FrequencyFacts
<1>3. f \in Seq(Nat) /\ ToLowerCase(f) = f
  BY <1>2, NormalizeType DEF NormalizeText
<1>4. \A i \in 1..Len(f) : f[i] \in KurmanciAlphabet \cup WordInternalPunctuation
  BY <1>1, <1>3 DEF EligibleForReview, Eligible, OutOfAlphabetChars, Chars
<1>5. NormalizeText(f) = f
  BY <1>3, <1>4, NormalizeNothing, AlphabetAssumption DEF NormalizeText
<1>6. freq[f].documents \in Nat /\ freq[f].tokens \in Nat
  BY FrequencyFacts
<1>7. \A d \in UnknownOf(train, lexicon) : d.token = e.token => d = e
  BY <1>1 DEF UnknownOf, Unknown
<1> QED
  BY <1>1, <1>3, <1>5, <1>6, <1>7

LEMMA UnknownIsFinite ==
  ASSUME NEW train \in Range(Train), NEW lexicon
  PROVE  IsFiniteSet(UnknownOf(train, lexicon))
<1> DEFINE freq == FrequenciesOf(train)
           new == {g \in DOMAIN freq : g \notin Known(lexicon) /\ EligibleForReview(g)}
           entry == [f \in new |-> [token |-> f, documents |-> freq[f].documents,
                                    tokens |-> freq[f].tokens]]
<1>1. IsFiniteSet(new)
  BY FrequencyFacts, FS_Subset
<1>2. DOMAIN entry = new
  OBVIOUS
<1>3. UnknownOf(train, lexicon) = {entry[f] : f \in DOMAIN entry}
  BY DEF UnknownOf, Unknown
<1> QED
  <2> HIDE DEF entry, new
  <2> QED BY <1>1, <1>2, <1>3, FiniteImage

LEMMA QueueOrder ==
  ASSUME NEW train \in Range(Train), NEW lexicon
  PROVE  LET S == UnknownOf(train, lexicon)
         IN  StrictTotalOrder({p \in S \X S : QueueBefore(p[1], p[2])}, S)
<1> DEFINE S == UnknownOf(train, lexicon)
<1>1. \A a \in S : a.token \in Seq(Nat) /\ a.documents \in Nat /\ a.tokens \in Nat
  BY UnknownFacts
<1>2. \A a, b \in S : a.token = b.token => a = b
  BY UnknownFacts
<1>3. \A a \in S : ~QueueBefore(a, a)
  BY <1>1, WordLessIrreflexive DEF QueueBefore
<1>4. \A a, b, c \in S : QueueBefore(a, b) /\ QueueBefore(b, c) => QueueBefore(a, c)
  BY <1>1, WordLessTransitive DEF QueueBefore
<1>5. \A a, b \in S : a = b \/ QueueBefore(a, b) \/ QueueBefore(b, a)
  BY <1>1, <1>2, WordLessTotal DEF QueueBefore
<1> QED
  <2> HIDE DEF S
  <2>1. StrictTotalOrder({p \in S \X S : QueueBefore(p[1], p[2])}, S)
    BY <1>3, <1>4, <1>5 DEF StrictTotalOrder
  <2> QED
    BY <2>1 DEF S

LEMMA QueueFacts ==
  ASSUME NEW train \in Range(Train), NEW lexicon
  PROVE  LET queue == QueueOf(train, lexicon)
         IN  /\ queue \in Seq(Range(queue))
             /\ \A k \in DOMAIN queue :
                  /\ queue[k].normalized = NormalizeText(queue[k].token)
                  /\ queue[k].normalized \notin Known(lexicon)
<1> DEFINE S == UnknownOf(train, lexicon)
           R == {p \in S \X S : QueueBefore(p[1], p[2])}
           n == Cardinality(S)
           at(k) == CHOOSE x \in S : Cardinality({y \in S : QueueBefore(y, x)}) = k - 1
           order == [k \in 1..n |-> at(k)]
           queue == QueueOf(train, lexicon)
<1>1. /\ n \in Nat
      /\ \A k \in 1..n : \E x \in S : Cardinality(SetLessThan(x, R, S)) = k - 1
  <2>1. IsFiniteSet(S) /\ StrictTotalOrder(R, S)
    BY UnknownIsFinite, QueueOrder
  <2> HIDE DEF R, S
  <2> QED BY <2>1, RanksExist
<1>2. \A x \in S : SetLessThan(x, R, S) = {y \in S : QueueBefore(y, x)}
  <2> HIDE DEF S
  <2> QED BY DEF SetLessThan
<1>3. \A k \in 1..n : at(k) \in S
  <2> SUFFICES ASSUME NEW k \in 1..n
               PROVE  \E x \in S : Cardinality({y \in S : QueueBefore(y, x)}) = k - 1
    OBVIOUS
  <2>1. PICK x \in S : Cardinality(SetLessThan(x, R, S)) = k - 1
    BY <1>1
  <2>2. SetLessThan(x, R, S) = {y \in S : QueueBefore(y, x)}
    BY <1>2
  <2> QED
    BY <2>1, <2>2
<1>4. queue = Numbered(order)
  BY DEF QueueOf, Ranked, UnknownOf
<1>5. /\ DOMAIN queue = 1..n
      /\ \A k \in 1..n : /\ queue[k].token = at(k).token
                          /\ queue[k].normalized = NormalizeText(queue[k].token)
  <2> HIDE DEF at, n
  <2> QED BY <1>4 DEF Numbered
<1>6. queue = [k \in 1..n |-> queue[k]]
  <2> HIDE DEF at, n
  <2> QED BY <1>4 DEF Numbered
<1>7. queue \in Seq(Range(queue))
  <2> HIDE DEF queue, n
  <2> QED BY <1>1, <1>5, <1>6 DEF Range
<1>8. ASSUME NEW k \in DOMAIN queue
      PROVE  /\ queue[k].normalized = NormalizeText(queue[k].token)
             /\ queue[k].normalized \notin Known(lexicon)
  <2>1. /\ k \in 1..n /\ queue[k].token = at(k).token /\ at(k) \in S
        /\ queue[k].normalized = NormalizeText(queue[k].token)
    BY <1>3, <1>5
  <2> HIDE DEF at, n, queue
  <2> QED
    BY <2>1, UnknownFacts
<1> QED
  BY <1>7, <1>8

(***************************************************************************)
(* What is chosen of a queue.                                              *)
(***************************************************************************)
LEMMA ChosenCandidates ==
  ASSUME NEW id, NEW train \in Range(Train), NEW lexicon, NEW queue,
         queue = QueueOf(train, lexicon), NEW assigned,
         Chosen(id, queue, assigned) # Refused
  PROVE  TokensOf(Chosen(id, queue, assigned)) \cap (assigned \cup Known(lexicon)) = {}
<1> DEFINE unassigned == {k \in DOMAIN queue : queue[k].normalized \notin assigned}
           free == Unassigned(queue, assigned)
           chosen == Chosen(id, queue, assigned)
<1>1. /\ queue \in Seq(Range(queue))
      /\ \A k \in DOMAIN queue : /\ queue[k].normalized = NormalizeText(queue[k].token)
                                 /\ queue[k].normalized \notin Known(lexicon)
  BY QueueFacts
<1>2. free = Sublist(queue, unassigned)
  BY DEF Unassigned
<1>3. /\ free \in Seq(Range(queue))
      /\ \A k \in DOMAIN free : \E i \in unassigned : free[k] = queue[i]
  <2>1. unassigned \in SUBSET DOMAIN queue
    OBVIOUS
  <2> HIDE DEF unassigned
  <2> QED BY <1>1, <1>2, <2>1, SublistType
<1>4. /\ ~(Len(free) < BatchSize)
      /\ DOMAIN chosen = 1..BatchSize
      /\ \A k \in 1..BatchSize : chosen[k].token = free[k].token
  BY DEF Chosen
<1>5. \A k \in 1..BatchSize : k \in DOMAIN free
  <2> HIDE DEF free
  <2> QED BY <1>3, <1>4, BatchesAssumption
<1> SUFFICES ASSUME NEW w \in TokensOf(chosen) PROVE w \notin assigned /\ w \notin Known(lexicon)
  OBVIOUS
<1>6. PICK k \in 1..BatchSize : w = NormalizeText(free[k].token)
  <2> HIDE DEF chosen, free
  <2> QED BY <1>4 DEF TokensOf, Range
<1>7. PICK i \in unassigned : free[k] = queue[i]
  BY <1>3, <1>5
<1> QED
  BY <1>1, <1>6, <1>7

(***************************************************************************)
(* The earlier batches, and what a batch holds.                            *)
(*                                                                         *)
(* While a generator that nothing disturbs reads them, the earlier batches *)
(* stay as they are: those that are registered as they are pinned, those   *)
(* it has hashed as it has hashed them.                                    *)
(***************************************************************************)
Copy(j) == [batch |-> j, candidates |-> batches[j].candidates]

PriorsHeld(i) ==
  i \notin disturbed =>
    /\ ReadsPriors(i) =>
         \A p \in generators[i].pins :
           \E j \in Batches : j < i /\ Whole(batches[j]) /\ p = Copy(j)
    /\ At(i, "open") \/ At(i, "list") => generators[i].excluded = {}
    /\ At(i, "prior") \/ At(i, "reopen") =>
         /\ generators[i].priors \subseteq {j \in Batches : j < i}
         /\ \A p \in generators[i].pins :
              p.batch \in generators[i].priors \/ p \in generators[i].excluded
    /\ At(i, "prior") =>
         \A e \in generators[i].excluded : TokensOf(e.candidates) \subseteq generators[i].assigned
    /\ At(i, "reopen") =>
         \E j \in Batches :
           /\ IsNext(j, i)
           /\ Copy(j) \in generators[i].excluded
           /\ \A e \in generators[i].excluded :
                e = Copy(j) \/ TokensOf(e.candidates) \subseteq generators[i].assigned

\* The words are not known, and the pinned batches are among those whose words it leaves out.
Content(batch) ==
  batch.undisturbed =>
    /\ TokensOf(batch.candidates) \cap Known(batch.verified) = {}
    /\ batch.pins \subseteq batch.manifest.excluded
    /\ \A e \in batch.manifest.excluded :
         TokensOf(e.candidates) \cap TokensOf(batch.candidates) = {}

Contents(i) ==
  /\ At(i, "clean") \/ At(i, "write") => Content(generators[i].batch)
  /\ Whole(stages[i]) => Content(stages[i])
  /\ Whole(batches[i]) => Content(batches[i])

CInv == \A i \in Batches : PriorsHeld(i) /\ Contents(i)

LEMMA TrainRange ==
  ASSUME NEW t \in DOMAIN Train
  PROVE  Train[t] \in Range(Train)
BY DEF Range

LEMMA InitCInv == Init => CInv
<1> SUFFICES ASSUME Init PROVE CInv
  OBVIOUS
<1>0. PICK lexicon \in {ExperimentalLexicon(Seed, specs, specs, decisions)} :
        \E queue \in {QueueOf(Train[1], lexicon)} :
        \E chosen \in {Chosen(1, queue, {})} :
          /\ chosen # Refused
          /\ batches = [i \in Batches |->
               IF i > 1 THEN Missing
               ELSE BatchOf(1, chosen, VerifiedJob(queue, evidence.summary, lexicon, {}), TRUE)]
  BY DEF Init
<1>1. PICK queue, chosen, summary :
        /\ queue = QueueOf(Train[1], lexicon)
        /\ chosen = Chosen(1, queue, {})
        /\ chosen # Refused
        /\ batches = [i \in Batches |->
                        IF i > 1 THEN Missing
                        ELSE BatchOf(1, chosen, VerifiedJob(queue, summary, lexicon, {}), TRUE)]
  BY <1>0, Zenon
<1>2. Train[1] \in Range(Train)
  <2>1. 1 \in DOMAIN Train
    BY TrainAssumption
  <2> QED
    BY <2>1, TrainRange
<1>3. Content(BatchOf(1, chosen, VerifiedJob(queue, summary, lexicon, {}), TRUE))
  <2>1. TokensOf(chosen) \cap ({} \cup Known(lexicon)) = {}
    BY <1>1, <1>2, ChosenCandidates
  <2> QED
    BY <2>1 DEF Content, BatchOf, VerifiedJob
<1>4. ASSUME NEW i \in Batches, Whole(batches[i]) PROVE Content(batches[i])
  <2>1. ~(i > 1)
    BY <1>1, <1>4 DEF Whole, Missing
  <2>2. batches[i] = BatchOf(1, chosen, VerifiedJob(queue, summary, lexicon, {}), TRUE)
    BY <1>1, <2>1
  <2> QED
    BY <1>3, <2>2
<1>5. \A i \in Batches : generators[i] = Idle /\ ~Whole(stages[i])
  BY DEF Init, Whole, Missing
<1> QED
  BY <1>4, <1>5 DEF CInv, PriorsHeld, Contents, ReadsPriors, At

\* The other processes leave a generator the earlier batches, or disturb it.
LEMMA HeldElsewhere ==
  ASSUME NEW i \in Batches, PriorsHeld(i), generators'[i] = generators[i],
         i \in disturbed => i \in disturbed',
         \/ i \in disturbed'
         \/ ~ReadsPriors(i)
         \/ \A j \in Batches : j < i => batches'[j] = batches[j]
  PROVE  PriorsHeld(i)'
<1>1. CASE i \in disturbed'
  BY <1>1 DEF PriorsHeld
<1>2. CASE ~ReadsPriors(i)
  BY <1>2 DEF PriorsHeld, ReadsPriors, At
<1>3. CASE /\ i \notin disturbed' /\ \A j \in Batches : j < i => batches'[j] = batches[j]
  <2>0. i \notin disturbed
    BY <1>3
  <2>1. \A j \in Batches : j < i => Copy(j)' = Copy(j)
    BY <1>3 DEF Copy
  <2>2. \A j \in Batches : IsNext(j, i)' <=> IsNext(j, i)
    BY DEF IsNext
  <2>3. ReadsPriors(i)' =>
          \A p \in generators'[i].pins :
            \E j \in Batches : j < i /\ Whole(batches'[j]) /\ p = Copy(j)'
    <3> SUFFICES ASSUME ReadsPriors(i), NEW p \in generators[i].pins
                 PROVE  \E j \in Batches : j < i /\ Whole(batches'[j]) /\ p = Copy(j)'
      BY DEF ReadsPriors, At
    <3>1. PICK j \in Batches : j < i /\ Whole(batches[j]) /\ p = Copy(j)
      BY <2>0 DEF PriorsHeld
    <3> QED
      BY <1>3, <2>1, <3>1
  <2>4. At(i, "reopen")' =>
          \E j \in Batches :
            /\ IsNext(j, i)'
            /\ Copy(j)' \in generators'[i].excluded
            /\ \A e \in generators'[i].excluded :
                 e = Copy(j)' \/ TokensOf(e.candidates) \subseteq generators'[i].assigned
    <3> SUFFICES ASSUME At(i, "reopen")
                 PROVE  \E j \in Batches :
                          /\ IsNext(j, i)
                          /\ Copy(j)' \in generators[i].excluded
                          /\ \A e \in generators[i].excluded :
                               \/ e = Copy(j)'
                               \/ TokensOf(e.candidates) \subseteq generators[i].assigned
      BY <2>2 DEF At
    <3>1. PICK j \in Batches :
            /\ IsNext(j, i)
            /\ Copy(j) \in generators[i].excluded
            /\ \A e \in generators[i].excluded :
                 e = Copy(j) \/ TokensOf(e.candidates) \subseteq generators[i].assigned
      BY <2>0 DEF PriorsHeld
    <3>2. j < i
      BY <2>0, <3>1 DEF PriorsHeld, IsNext
    <3> QED
      BY <2>1, <3>1, <3>2
  <2> QED
    BY <2>0, <2>3, <2>4 DEF PriorsHeld, At
<1> QED
  BY <1>1, <1>2, <1>3

LEMMA HeldVerify ==
  ASSUME IInv, NEW i \in Batches, Verify(i)
  PROVE  PriorsHeld(i)'
<1>1. CASE generators'[i] = Idle
  BY <1>1 DEF PriorsHeld, ReadsPriors, At
<1>2. CASE StartBatch(i)
  <2>1. generators'[i].at = "hash queue"
    BY <1>2 DEF StartBatch, IInv, Fields
  <2> QED
    BY <2>1 DEF PriorsHeld, ReadsPriors, At
<1>3. CASE generators'[i].at \in {"summary entry", "queue entry", "parse", "corpus", "lexicon"}
  BY <1>3 DEF PriorsHeld, ReadsPriors, At
<1>4. CASE /\ UNCHANGED batches
           /\ Lexicon(generators[i].known) # Refused
           /\ generators'[i] =
                VerifiedJob(generators[i].hash, generators[i].summary,
                            Lexicon(generators[i].known), PinsBefore(i, generators[i].known))
  <2>1. /\ generators'[i].at = "open" /\ generators'[i].excluded = {}
        /\ generators'[i].pins = PinsBefore(i, generators[i].known)
    BY <1>4 DEF VerifiedJob
  <2>2. ASSUME NEW p \in PinsBefore(i, generators[i].known)
        PROVE  \E j \in Batches : j < i /\ Whole(batches[j]) /\ p = Copy(j)
    <3>1. PICK j \in registered :
            /\ j < i /\ generators[i].known[j] # Missing
            /\ p = [batch |-> j, candidates |-> generators[i].known[j].candidates]
      BY DEF PinsBefore
    <3>2. j \in Batches /\ Whole(batches[j])
          /\ batches[j].candidates = generators[i].known[j].candidates
      BY <1>4, <3>1, ResolvedAsPinned DEF IInv, Fields
    <3> QED
      BY <3>1, <3>2 DEF Copy
  <2>3. \A p \in generators'[i].pins :
          \E j \in Batches : j < i /\ Whole(batches'[j]) /\ p = Copy(j)'
    BY <1>4, <2>1, <2>2 DEF Copy
  <2> QED
    BY <2>1, <2>3 DEF PriorsHeld, At
<1> QED
  BY <1>1, <1>2, <1>3, <1>4, VerifyJob

LEMMA HeldChoose ==
  ASSUME IInv, NEW i \in Batches, PriorsHeld(i), Choose(i)
  PROVE  PriorsHeld(i)'
<1>0. /\ UNCHANGED batches /\ DOMAIN batches = Batches /\ DOMAIN generators = Batches
      /\ DOMAIN generators[i] = {"at", "hash", "summary", "verified", "pins", "queue",
                                 "priors", "excluded", "assigned"}
      /\ ReadsPriors(i)
  BY ChooseJob DEF IInv, Fields, JobFields
<1>1. CASE i \in disturbed' \/ generators'[i] = Idle
  BY <1>1 DEF PriorsHeld, ReadsPriors, At
<1>2. CASE OpenQueue(i) /\ i \notin disturbed' /\ generators'[i] # Idle
  <2>1. /\ At(i, "open") /\ UNCHANGED disturbed
        /\ generators'[i] = [generators[i] EXCEPT !.at = "list", !.queue = evidence.queue]
    BY <1>0, <1>2 DEF OpenQueue, Read, Goto
  <2>2. /\ generators'[i].at = "list" /\ generators'[i].pins = generators[i].pins
        /\ generators'[i].excluded = {}
    BY <1>0, <1>2, <2>1 DEF PriorsHeld
  <2>3. \A p \in generators'[i].pins :
          \E j \in Batches : j < i /\ Whole(batches'[j]) /\ p = Copy(j)'
    BY <1>0, <1>2, <2>1, <2>2 DEF PriorsHeld, Copy
  <2> QED
    BY <2>2, <2>3 DEF PriorsHeld, At
<1>3. CASE ListPriors(i) /\ i \notin disturbed' /\ generators'[i] # Idle
  <2>1. /\ At(i, "list") /\ UNCHANGED disturbed
        /\ generators'[i] = [generators[i] EXCEPT !.at = "prior", !.priors = Priors(batches, i)]
    BY <1>0, <1>3 DEF ListPriors, Read, Goto
  <2>2. /\ generators'[i].at = "prior" /\ generators'[i].pins = generators[i].pins
        /\ generators'[i].excluded = {}
        /\ generators'[i].priors = {j \in Batches : j < i /\ batches[j] # Missing}
    BY <1>0, <1>3, <2>1 DEF PriorsHeld, Priors
  <2>3. \A p \in generators[i].pins :
          \E j \in Batches : j < i /\ Whole(batches[j]) /\ p = Copy(j)
    BY <1>0, <1>3, <2>1 DEF PriorsHeld
  <2>4. \A p \in generators[i].pins : p.batch \in generators'[i].priors
    BY <2>2, <2>3 DEF Copy, Whole, Missing
  <2>5. \A p \in generators'[i].pins :
          \E j \in Batches : j < i /\ Whole(batches'[j]) /\ p = Copy(j)'
    BY <1>0, <2>2, <2>3 DEF Copy
  <2> QED
    BY <2>2, <2>4, <2>5 DEF PriorsHeld, At
<1>4. ASSUME HashPrior(i), i \notin disturbed', generators'[i] # Idle
      PROVE  PriorsHeld(i)'
  <2>1. PICK j \in Batches :
          /\ IsNext(j, i)
          /\ generators'[i] = [generators[i] EXCEPT !.at = "reopen", !.excluded =
               generators[i].excluded \cup {[batch |-> j, candidates |-> batches[j].candidates]}]
    BY <1>0, <1>4 DEF HashPrior, Read, Goto
  <2>2. At(i, "prior") /\ i \notin disturbed
    BY <1>4 DEF HashPrior
  <2>3. /\ generators'[i].at = "reopen" /\ generators'[i].pins = generators[i].pins
        /\ generators'[i].excluded = generators[i].excluded \cup {Copy(j)}
        /\ generators'[i].priors = generators[i].priors
        /\ generators'[i].assigned = generators[i].assigned
    BY <1>0, <2>1 DEF Copy
  <2>4. \A p \in generators'[i].pins :
          \E k \in Batches : k < i /\ Whole(batches'[k]) /\ p = Copy(k)'
    BY <1>0, <2>2, <2>3 DEF PriorsHeld, Copy
  <2>5. IsNext(j, i)' /\ Copy(j)' = Copy(j)
    BY <1>0, <2>1, <2>3 DEF IsNext, Copy
  <2>6. \A e \in generators'[i].excluded :
          e = Copy(j)' \/ TokensOf(e.candidates) \subseteq generators'[i].assigned
    BY <2>2, <2>3, <2>5 DEF PriorsHeld
  <2>7. /\ generators'[i].priors \subseteq {k \in Batches : k < i}
        /\ \A p \in generators'[i].pins :
             p.batch \in generators'[i].priors \/ p \in generators'[i].excluded
    BY <2>2, <2>3 DEF PriorsHeld
  <2>8. Copy(j)' \in generators'[i].excluded
    BY <2>3, <2>5
  <2> QED
    BY <2>3, <2>4, <2>5, <2>6, <2>7, <2>8 DEF PriorsHeld, At
<1>5. ASSUME ReopenPrior(i), i \notin disturbed', generators'[i] # Idle
      PROVE  PriorsHeld(i)'
  <2>1. PICK j \in Batches :
          /\ IsNext(j, i)
          /\ generators'[i] = [generators[i] EXCEPT !.at = "prior",
               !.priors = generators[i].priors \ {j},
               !.assigned = generators[i].assigned \cup TokensOf(batches[j].candidates)]
    BY <1>0, <1>5 DEF ReopenPrior, Read, Goto
  <2>2. At(i, "reopen") /\ i \notin disturbed
    BY <1>5 DEF ReopenPrior
  <2>3. /\ generators'[i].at = "prior" /\ generators'[i].pins = generators[i].pins
        /\ generators'[i].excluded = generators[i].excluded
        /\ generators'[i].priors = generators[i].priors \ {j}
        /\ generators'[i].assigned = generators[i].assigned \cup TokensOf(batches[j].candidates)
    BY <1>0, <2>1
  <2>4. PICK k \in Batches :
          /\ IsNext(k, i)
          /\ Copy(k) \in generators[i].excluded
          /\ \A e \in generators[i].excluded :
               e = Copy(k) \/ TokensOf(e.candidates) \subseteq generators[i].assigned
    BY <2>2 DEF PriorsHeld
  <2>5. k = j
    <3>1. k <= j /\ j <= k
      BY <2>1, <2>4 DEF IsNext
    <3> QED
      BY <3>1, BatchesAssumption
  <2>6. \A p \in generators[i].pins :
          \E m \in Batches : m < i /\ Whole(batches[m]) /\ p = Copy(m)
    BY <1>0, <2>2 DEF PriorsHeld
  <2>7. \A p \in generators'[i].pins :
          \E m \in Batches : m < i /\ Whole(batches'[m]) /\ p = Copy(m)'
    BY <1>0, <2>3, <2>6 DEF Copy
  <2>8. ASSUME NEW p \in generators'[i].pins, p.batch = j PROVE p \in generators'[i].excluded
    <3>1. PICK m \in Batches : p = Copy(m)
      BY <2>3, <2>6
    <3>2. m = j
      BY <2>8, <3>1 DEF Copy
    <3> QED
      BY <2>3, <2>4, <2>5, <3>1, <3>2
  <2>9. \A p \in generators'[i].pins :
          p.batch \in generators'[i].priors \/ p \in generators'[i].excluded
    BY <2>2, <2>3, <2>8 DEF PriorsHeld
  <2>10. \A e \in generators'[i].excluded : TokensOf(e.candidates) \subseteq generators'[i].assigned
    BY <2>3, <2>4, <2>5 DEF Copy
  <2>11. generators'[i].priors \subseteq {m \in Batches : m < i}
    BY <2>2, <2>3 DEF PriorsHeld
  <2> QED
    BY <2>3, <2>7, <2>9, <2>10, <2>11 DEF PriorsHeld, At
<1>6. CASE \E batch : generators'[i] = [at |-> "clean", batch |-> batch]
  <2>1. generators'[i].at = "clean"
    BY <1>6
  <2> QED
    BY <2>1 DEF PriorsHeld, ReadsPriors, At
<1>7. ChooseCandidates(i) =>
        generators'[i] = Idle \/ \E batch : generators'[i] = [at |-> "clean", batch |-> batch]
  BY <1>0 DEF ChooseCandidates, Read, Goto
<1> QED
  BY <1>1, <1>2, <1>3, <1>4, <1>5, <1>6, <1>7 DEF Choose

LEMMA ContentsOwn ==
  ASSUME IInv, EInv, CInv, NEW i \in Batches, Verify(i) \/ Choose(i) \/ Stage(i)
  PROVE  Contents(i)'
<1>0. /\ Contents(i) /\ DOMAIN generators = Batches
      /\ DOMAIN batches = Batches /\ DOMAIN stages = Batches
  BY DEF CInv, IInv, Fields
<1>1. CASE StartBatch(i)
  <2>1. generators'[i].at = "hash queue" /\ UNCHANGED <<batches, stages>>
    BY <1>0, <1>1 DEF StartBatch, directories
  <2> QED
    BY <1>0, <2>1 DEF Contents, At
<1>2. CASE Verify(i) /\ ~StartBatch(i)
  <2>1. /\ UNCHANGED <<batches, stages>>
        /\ \/ generators'[i] = Idle
           \/ generators'[i].at \in {"summary entry", "queue entry", "parse", "corpus", "lexicon"}
           \/ generators'[i].at = "open"
    <3>1. CASE generators'[i] = VerifiedJob(generators[i].hash, generators[i].summary,
                                            Lexicon(generators[i].known),
                                            PinsBefore(i, generators[i].known))
      <4>1. generators'[i].at = "open"
        BY <3>1 DEF VerifiedJob
      <4> QED
        BY <1>2, <4>1, VerifyJob
    <3> QED
      BY <1>2, <3>1, VerifyJob
  <2> QED
    BY <1>0, <2>1 DEF Contents, At
<1>3. CASE Choose(i)
  <2>1. UNCHANGED <<batches, stages>>
    BY <1>3, ChooseJob
  <2>2. CASE generators'[i] = Idle \/ generators'[i].at \in {"list", "prior", "reopen"}
    BY <1>0, <2>1, <2>2 DEF Contents, At
  <2>3. ASSUME At(i, "prior"), generators[i].priors = {}, NEW chosen,
               chosen = Chosen(i, generators[i].queue, generators[i].assigned),
               chosen # Refused,
               generators'[i] = [at |-> "clean",
                                 batch |-> BatchOf(i, chosen, generators[i], i \notin disturbed)]
        PROVE  Contents(i)'
    <3> DEFINE batch == BatchOf(i, chosen, generators[i], i \notin disturbed)
    <3>1. /\ batch.undisturbed = (i \notin disturbed)
          /\ batch.candidates = chosen
          /\ batch.verified = generators[i].verified
          /\ batch.pins = generators[i].pins
          /\ batch.manifest.excluded = generators[i].excluded
      BY DEF BatchOf
    <3>2. ASSUME i \notin disturbed
          PROVE  /\ TokensOf(chosen) \cap Known(generators[i].verified) = {}
                 /\ generators[i].pins \subseteq generators[i].excluded
                 /\ \A e \in generators[i].excluded :
                      TokensOf(e.candidates) \cap TokensOf(chosen) = {}
      <4>1. /\ generators[i].verified = generators[i].summary.lexicon
            /\ Good(generators[i].summary, generators[i].queue)
        BY <2>3, <3>2 DEF EInv, Evident, Choosing, ReadsPriors
      <4>2. Train[generators[i].summary.corpus] \in Range(Train)
        BY <4>1, TrainRange DEF Good
      <4>3. TokensOf(chosen) \cap (generators[i].assigned \cup Known(generators[i].verified)) = {}
        BY <2>3, <4>1, <4>2, ChosenCandidates DEF Good
      <4>4. /\ generators[i].pins \subseteq generators[i].excluded
            /\ \A e \in generators[i].excluded :
                 TokensOf(e.candidates) \subseteq generators[i].assigned
        BY <2>3, <3>2 DEF CInv, PriorsHeld
      <4> QED
        BY <4>3, <4>4
    <3>3. generators'[i].at = "clean" /\ generators'[i].batch = batch
      BY <2>3
    <3> HIDE DEF batch
    <3>4. Content(batch)
      BY <3>1, <3>2 DEF Content
    <3> QED
      BY <1>0, <2>1, <3>3, <3>4 DEF Contents, At
  <2> QED
    BY <1>3, <2>2, <2>3, ChooseJob
<1>4. CASE CleanStage(i)
  <2>1. DOMAIN generators[i] = {"at", "batch"} /\ At(i, "clean")
    BY <1>4 DEF CleanStage, IInv, JobFields
  <2>2. /\ UNCHANGED batches /\ ~Whole(stages'[i])
        /\ generators'[i].at = "write" /\ generators'[i].batch = generators[i].batch
    BY <1>0, <1>4, <2>1 DEF CleanStage, Goto, Whole, Torn
  <2> QED
    BY <1>0, <2>1, <2>2 DEF Contents, At
<1>5. CASE WriteStage(i)
  <2>1. /\ At(i, "write") /\ UNCHANGED batches /\ stages'[i] = generators[i].batch
        /\ generators'[i].at = "remove"
    BY <1>0, <1>5 DEF WriteStage, Goto
  <2> QED
    BY <1>0, <2>1 DEF Contents, At
<1>6. CASE TearOld(i) \/ RemoveOld(i)
  <2>1. /\ UNCHANGED stages
        /\ batches'[i] \in {Torn, Missing}
        /\ generators'[i].at \in {"removing", "rename"}
    BY <1>0, <1>6 DEF TearOld, RemoveOld, Replace, Goto
  <2>2. ~Whole(batches'[i])
    BY <2>1 DEF Whole, Torn, Missing
  <2> QED
    BY <1>0, <2>1, <2>2 DEF Contents, At
<1>7. CASE RenameStage(i)
  <2>1. batches'[i] = stages[i] /\ stages'[i] = Missing /\ generators'[i] = Idle
    BY <1>0, <1>7 DEF RenameStage, Replace, Goto
  <2>2. ~Whole(stages'[i])
    BY <2>1 DEF Whole, Missing
  <2> QED
    BY <1>0, <2>1, <2>2 DEF Contents, At
<1>8. CASE CrashBatch(i)
  <2>1. generators'[i] = Idle /\ UNCHANGED <<batches, stages>>
    BY <1>0, <1>8 DEF CrashBatch, Goto, directories
  <2> QED
    BY <1>0, <2>1 DEF Contents, At
<1> QED
  BY <1>1, <1>2, <1>3, <1>4, <1>5, <1>6, <1>7, <1>8 DEF Stage

LEMMA HeldOwn ==
  ASSUME IInv, NEW i \in Batches, PriorsHeld(i), Verify(i) \/ Choose(i) \/ Stage(i)
  PROVE  PriorsHeld(i)'
<1>1. CASE Verify(i)
  BY <1>1, HeldVerify
<1>2. CASE Choose(i)
  BY <1>2, HeldChoose
<1>3. CASE Stage(i)
  <2>1. \/ generators'[i] = Idle
        \/ generators'[i].at \in {"write", "remove", "removing", "rename"}
    <3>0. DOMAIN generators = Batches
      BY DEF IInv, Fields
    <3>1. CASE CleanStage(i)
      <4>1. DOMAIN generators[i] = {"at", "batch"}
        BY <3>1 DEF CleanStage, IInv, JobFields
      <4> QED
        BY <3>0, <3>1, <4>1 DEF CleanStage, Goto
    <3>2. CASE WriteStage(i) \/ TearOld(i) \/ RemoveOld(i) \/ RenameStage(i) \/ CrashBatch(i)
      BY <3>0, <3>2 DEF WriteStage, TearOld, RemoveOld, RenameStage, CrashBatch, Goto
    <3> QED
      BY <1>3, <3>1, <3>2 DEF Stage
  <2> QED
    BY <2>1 DEF PriorsHeld, ReadsPriors, At
<1> QED
  BY <1>1, <1>2, <1>3

LEMMA StepCInv == IInv /\ EInv /\ CInv /\ [Next]_vars => CInv'
<1> SUFFICES ASSUME IInv, EInv, CInv, [Next]_vars, NEW i \in Batches
             PROVE  PriorsHeld(i)' /\ Contents(i)'
  BY DEF CInv
<1>0. PriorsHeld(i) /\ Contents(i)
  BY DEF CInv
<1>1. CASE BuildNext \/ PartitionAgain \/ UNCHANGED vars
           \/ \E j \in Batches : Decide(j) \/ Pin(j) \/ Register(j)
  <2>1. /\ UNCHANGED <<batches, stages, generators>>
        /\ i \in disturbed => i \in disturbed'
    BY <1>1 DEF BuildNext, StartBuild, ResolveLexicon, TakeFingerprint, ReadCorpus,
                WriteSummary, WriteQueue, WriteArtifacts, WriteEvidence, CrashBuild, Build,
                PartitionAgain, Decide, Pin, Register, directories, history, vars
  <2>2. PriorsHeld(i)'
    BY <1>0, <2>1, HeldElsewhere
  <2> QED
    BY <1>0, <2>1, <2>2 DEF Contents, At
<1>2. ASSUME NEW j \in Batches, Verify(j) \/ Choose(j) \/ Stage(j)
      PROVE  PriorsHeld(i)' /\ Contents(i)'
  <2>1. CASE j = i
    BY <1>0, <1>2, <2>1, HeldOwn, ContentsOwn
  <2>2. CASE j # i
    <3>1. StepOf(j)
      BY <1>2, GeneratorStep DEF IInv
    <3>2. /\ generators'[i] = generators[i] /\ batches'[i] = batches[i] /\ stages'[i] = stages[i]
          /\ i \in disturbed => i \in disturbed'
      BY <2>2, <3>1 DEF StepOf
    <3>3. \/ i \in disturbed'
          \/ ~ReadsPriors(i)
          \/ \A k \in Batches : k < i => batches'[k] = batches[k]
      BY <2>2, <3>1 DEF StepOf
    <3> QED
      BY <1>0, <3>2, <3>3, HeldElsewhere DEF Contents, At
  <2> QED
    BY <2>1, <2>2
<1> QED
  BY <1>1, <1>2 DEF Next

LEMMA AlwaysCInv == Spec => []CInv
BY InitIInv, StepIInv, InitEInv, StepEInv, InitCInv, StepCInv, PTL DEF Spec

\* A batch of a generator that was not disturbed excludes every earlier batch that was
\* registered, as it is pinned, and offers none of their words
\* (generate_kuwiki_review_batch, the exclusion of prior batches).
THEOREM RegisteredWordsAreNotOffered == Spec => []RegisteredWordsStayAssigned
<1>1. CInv => RegisteredWordsStayAssigned
  BY DEF CInv, Contents, Content, RegisteredWordsStayAssigned
<1> QED
  BY AlwaysCInv, <1>1, PTL

\* A batch of a generator that was not disturbed offers no word of the lexicon that there
\* was when the fingerprint was compared (verify_vocabulary_evidence_provenance).
THEOREM OfferedWordsAreUnknown == Spec => []OffersAreUnknown
<1>1. CInv => OffersAreUnknown
  BY DEF CInv, Contents, Content, OffersAreUnknown
<1> QED
  BY AlwaysCInv, <1>1, PTL
=============================================================================
