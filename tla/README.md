# Verification of Kurmancî

This directory holds TLA+ models of the Kurmancî repository (a Rust engine for
Kurmancî text input, its C ABI and mobile bindings, and the `data-builder` that
produces its language packs), the TLC configurations that check them and the
TLAPS proofs about them. Paths below are those of the repository, seen from its
root; `release.rs` and the like without a directory are under `data-builder/src`.

Run everything inside this directory:

    tlc -config MC_ReleaseInstall.cfg MC_ReleaseInstall.tla      (one per .cfg)
    tlc -config MC_ProductionUpgrade.cfg MC_ProductionRebuild.tla
    tlc -config MC_KuwikiRepeat.cfg MC_KuwikiBatches.tla
    tlapm ReleaseInstallProofs.tla                               (one per *Proofs.tla)

`PROJECT.json` says for each run which properties it checks, for each property
which mistake in the code it would catch, and for each definition which lines
of the code it stands for.

## 1. The system

| Part | State it keeps | Operations | Talks to |
| --- | --- | --- | --- |
| Release builder, `release.rs` | bundle directory, `.tmp-stage`, `.tmp-backup` | build and install a bundle, verify a bundle | reads the verified production state and the packs |
| Production state, `production.rs` | none of its own; reads every manifest | `verify-production-state` (read only), `rebuild-production` | calls import, partition, model and pack builds in one process |
| Corpus import, `corpus/importer.rs` | `data/imported-canonical`, its lock file | `import-all-corpora`, `verify_canonical_manifest` | reads the corpus registry and the acquired dumps |
| Partition, `corpus/partition.rs` | `data/build/corpus-partitions`, a report directory | `partition-corpora` | reads the import; takes no lock |
| Language model, `pack/language_model.rs` | `data/language-model/<id>` (committed) | build, write, load and re-verify | reads registry, import, partition, `ngrams.toml`, review decisions |
| Packs, `pack/builder.rs`, `pack/manifest.rs` | `data/build/packs/<id>`, `data/pack-builds.lock` | `build-pack`, assemble in memory, validate manifests | reads decisions and the model |
| Evaluation packs, `pack/evaluation.rs` | an output directory, stage, backup | `install_artifact_set` | as the packs |
| Pack policy, selection, collisions, `pack/` | none | pure functions | used by the builder |
| Hunspell importer, `importers/hunspell.rs` | four reports, written in place | `import-hunspell` | the audit and the queues read them |
| Lexicon audit, `audit/` | an audit directory | `audit-lexicon` | replays the dictionary; the queues read it |
| Review, `review/` | queues, decisions, vocabulary batches, a report | generate queues, merge and validate decisions, offer a vocabulary batch | inputs of the packs; same lock guard and swap |
| Kuwiki review, `review/kuwiki_*.rs`, `corpus/vocabulary_evidence.rs` | evidence files, batch directories, decisions (committed), the list of registered batches in the code | build evidence, generate a batch, load and check registered batches | reads the train partition; its words enter the experimental pack, which the next evidence reads |
| Acquisition, `corpus/acquire.rs` | dumps outside version control | download, verify, extract | the registry; the network |
| Statistics and evaluations, `corpus/`, `evaluation/`, `eval_*.rs` | report directories | sequential computations | read what the others installed |
| Lock guard, `LockFileGuard` in `corpus/importer.rs` | existence of a file | acquire, release, Drop | importer, pack builder, review, evaluation |
| Pack compiler, `compile.rs` | none | entries and n-grams to bytes | the builder; the engine reads the bytes |
| Engine, `engine/src` | lexicon, trie, query index, prediction indexes | load a pack, append a lexicon, suggest, complete, correct, predict | the C ABI |
| C ABI, `ffi/src/lib.rs` | a message per thread, boxes for engines and lists | create, query, destroy, read the message | JNI, Swift |
| JNI bridge and Kotlin wrapper, `ffi/kurmanci-jni`, `android/kurmanci` | the native pointer behind a read-write lock | queries, close | the threads of an app |
| Swift wrapper, `swift/` | the native pointer | queries; frees it in `deinit` | the threads of an app |
| Scripts and command lines | published releases, build products | publish a bundle, build the platform packages | everything above |

What is hard in it:

* **Directories that are replaced while they matter.** Almost every output is
  written to a stage directory and swapped in with two renames. A process can
  die between any two calls, every call can fail, and the next run finds what is
  left. The code has three variants of the swap, with different guarantees.
* **A lock that is a file.** Looking at it and removing it are two calls, and it
  is removed twice.
* **A chain of outputs made from outputs.** Each step records the hash of what it
  read. The steps can be run one by one, by several people, in any order, with
  and without the dump; an input may change while a step runs. Only the hashes
  are compared later.
* **A mutable cell and a raw pointer under many threads.** The message of the
  last error is read by a second call, and `close()` frees the engine that
  queries of other threads use.
* **One lexicon in four shapes.** The engine answers from a trie, an index and
  prediction tables made from its lexicon, each with a pruned search that must lose
  nothing, and the bytes it reads may be damaged.
* **People's decisions about things that change.** A reviewer decides about what a
  queue showed; the dictionary, the import, the queues and the decisions are
  replaced independently, and no command compares the hashes of all of them.
* **A loop through the corpus.** Registered Kuwiki batches change the lexicon that
  the next evidence leaves out, from which the next batch is chosen.

The hazards this leads to, each at its line, with the properties that cover it or
the reason why none does yet, are listed in `PROJECT.json` under `hazards`.

### What makes each part correct

* Release installation: the last good bundle is never lost or damaged, and the
  command never reports something that is not so.
* Pack build: a reader meets one complete build; a failed build leaves the pack
  alone; the lock always comes back.
* Lock guard: one holder at a time.
* Evaluation packs: "exactly these files, or exactly as it was".
* Verification: when it passes, the committed model really is made from the
  current inputs. Rebuild: it repairs the derived outputs, and does nothing when there
  is nothing to do. The code does the first with two exceptions, described below.
* Bindings: no use after free, no double free, no leaked list, the right message
  in the right exception, and a close that ends.
* Engine: the fast paths answer as the slow ones; what was compiled is what is
  predicted; a damaged pack is refused and changes nothing.
* Review: a dictionary word of the reviewed pack reads as what a reviewer approved; the
  experimental pack contains the reviewed one; each command fails only for a reason in
  its input.
* Kuwiki review: words of a registered batch are not put before reviewers again by a
  later one; evidence that a generator accepts is one build; a registered batch does
  not vanish while its directory is being replaced, there is a whole one in the stage
  (the new one, which need not be the one that is pinned). That no word is in two batches,
  as the code and its test have it, is not so.

## 2. The modules

    DirSlots ──┬── AtomicInstall                       abstract: never lost, never damaged
               ├── ReleaseInstall ── ReleaseInstallProofs   implements AtomicInstall
               ├── ArtifactInstall
    LockFile ──┴── PackBuild ── PackBuildProofs        the lock and the swap composed
    FfiErrors ─┬── ErrorPointer
               └── EngineHandle ── EngineHandleProofs
    ProductionState ── ProductionRebuild ── ProductionRebuildProofs   the whole chain, several processes

    Normalization ── Distance ── CompletionTrie ── QueryIndex ── Suggestions ── PackFormat ── Engine
                                                                                               ── EngineProofs
    Normalization ── Alphabet ── HunspellImport ── LexiconAudit ── ReviewQueues
                  ── ReviewDecisions ── PackSelection ─┬─ ReviewPipeline ── ReviewPipelineProofs
                                                       └─ KuwikiReview ── KuwikiBatches
                                                                       ── KuwikiBatchesProofs
    QueryIndex ── WordFacts ─┬─ ReviewPipelineProofs
                             ├─ KuwikiBatchesProofs
                             └─ EngineProofs

Of these chains only Engine, ReviewPipeline and KuwikiBatches hold variables;
the modules before them are the algorithms, as operators and recursive functions.
**WordFacts** has the lemmas that need no variable: those about finite sets, orders,
sequences and words that the proofs share, and those about the algorithms of Distance (both
tables), CompletionTrie and QueryIndex, for any list of words, that EngineProofs applies to the
engine's lexicon.

**DirSlots** is the file system the three installers share: `target`, `stage` and
`backup`, each with the number of the run that wrote it and whether all of its
files are there, some, or none. `rename` is atomic and refuses a destination that
holds a whole directory; `remove_dir_all` may stop half way.

**AtomicInstall** is the promise of `install_directory_with`'s doc comment
(`release.rs:168-173`): one variable, what can be recovered, and one action that
replaces it by the complete bundle of a later run.

**ReleaseInstall** is `release.rs:895-923` (writing the stage) and
`install_directory_with` (174-251), one action per file-system call: `Start`,
`CleanStage`, `WriteStage`, `Inspect` (the match on `target_exists` and
`backup_exists`), `DropStaleBackup`, `RestoreBackup`, `Park`, `Install`,
`RemoveBackup`, `Rollback`, and `Crash`. `result` is the report, one value per
error text. Any call may fail; the next run starts in what is left. `Promise` is
`AtomicInstall` with `current <- Recoverable(dir)`.

**LockFile** is `LockFileGuard` (`corpus/importer.rs:65-116`). `file` is the process
whose file is at the path. `release(self)` is `ReleaseCheck` and `ReleaseRemove`, or
`ReleaseFails` when the file cannot be removed; because `self` is dropped when it returns, `DropCheck` and `DropRemove` follow. An
early return of the holder is `Bail`, straight to the drop. `Kill` leaves the
file; `ClearStale` is the operator who removes it. `robbed` and `abandoned` are
history.

**PackBuild** is `build_pack` (`pack/builder.rs:570-657`) by several processes, on top of
the actions of LockFile. Unlike the release, it removes a backup before it
knows whether the pack directory exists. `overlapped` remembers processes that
were inside together and `stranded` the builds that left the only copy in the
backup. The outcome is known when `release` has returned: `Finish` is its check and
`Release` its removal, whose error makes a build that has replaced the pack fail
(`unlock_failed`).

**ArtifactInstall** is `install_artifact_set` (`pack/evaluation.rs:526-606`), with the
closure `cleanup` that drops the error of `remove_dir_all`.

**FfiErrors** is the thread-local message and `ffi_guard` (`ffi/src/lib.rs:52-126`): each
guarded call empties the cell of its thread and fills it when it fails. A status
stands for its message. **ErrorPointer** adds the pointer a host keeps.

**EngineHandle** is one engine under the threads of a JVM: the Kotlin object
(`KurmanciEngine.kt:8-73`), the bridge (`ffi/kurmanci-jni/src/lib.rs`) and the C
functions. A query is `Query`, `LockRead`, `CheckOpen`, `RejectArgument` or
`NativeCall`, then, by the kind of its answer, `CopyInfo`, `ListLen`, `ListItem`,
`AllItemsCopied`, `DropList`, `Throw`, and `UnlockRead`; a close is `Close`,
`LockWrite`, `ClearHandle`, `Destroy`, `UnlockWrite`. What the queries answer is not
here: the engine is immutable once loaded, and its answers are the business of Engine.

**ProductionState** is what the manifests say and what they are compared with. Inputs
are versions; a hash of a thing is the thing; a manifest's claim about its
origin and the data it was really made from are separate fields (`manifest` and
`docs`, `config` and `pruned`). The state functions are the checks the code makes:
`CanonicalVerifies`, `NeedsImport`, `PartitionStale`, `PartitionVerifies`,
`ModelLoads`, `Assembles`, `PackManifestsValid`, and `VerifyOk`, which is
`verify_production_state`.

**ProductionRebuild** runs the commands as processes. `Rebuild` is the preflight of
`rebuild_production` (`Refuse` its refusal), then the process takes the same steps
as the single commands: `KeepImport` or `Import` and `InstallImport` under the
import lock; `KeepPartition` or `ReadImport`, `HashImport`, `Split` and `InstallPartition`;
`ReadProvenance`, `Count` and `PublishModel`; `AssemblePack` and `InstallPack` for
each pack, under the pack lock; `Validate` and `Verify`. A build is cut where it
reads an input a second time, because that is where another process matters:
the import, which is verified (`partition.rs:76`), its manifest, which is read again for
the hash that the partition records (80), and its documents; the partition's manifest and then `train.jsonl` (`language_model.rs:593-610`), the
pruning configuration and then its hash (599 and 607). `Stop` is any failure or
kill; in a swap it leaves the old directory, the new one or none. `EditInput`,
`MoveDump`, `Upgrade` and `ClearLock` are people.

**Normalization** is `engine/src/normalization.rs` and the letter classes of the case
rules. A letter is a number in code point order, a word a sequence of letters; case,
composition and base letters are constants. **Distance** is the weighted
Damerau-Levenshtein distance in quarters (`distance.rs`), as an operator that makes one
row of the matrix from the two before it; the trie makes its rows with the same
operator at unit cost. **CompletionTrie** (`trie.rs`) is the flat arrays as `build` lays
them out, with `Contains`, `FindByPrefix` and the fuzzy walk with its reused row buffer.
**QueryIndex** (`index.rs`) is the exact, prefix and near-position look-ups.
**Suggestions** is the pipeline of `engine.rs`: the stages that fill the map of candidates,
once from the index (`IndexedCandidates`) and once by scanning (`ScannedCandidates`, the
reference the code keeps for its own tests), the order of candidates, and `Finish`. The
floating-point score is computed after the order is decided and is left out.

**PackFormat** is `compile.rs` (`CompiledPack`: record checks, index assignment, grouping,
order, limits) and the decoder of `engine.rs` (`Decoded`: the header checks in their order,
then three sections with their rules). A payload is a sequence of cells, one number per
field the queries read. **Engine** has the variables: `LoadIntact` loads what the
compiler wrote, `LoadDamaged` a file with one thing wrong (cut, overwritten, a field
changed under a header made for it), `LoadLexicon` appends entries, rebuilds trie and
index and keeps the predictions, or panics at the limit.

**Alphabet** holds the text rules of the data-builder (`normalize.rs`, `alphabet.rs`,
`audit/classify.rs`). **HunspellImport** is `importers/hunspell.rs`; its importer and its
shared parser each have a loop of their own in the code, and here. **LexiconAudit**
replays the dictionary and describes it (`audit/input.rs`, `audit/analysis.rs`).
**ReviewQueues** is `review/queues.rs` with the identifiers of `schema.rs`, which are
modelled by the fields that are hashed. **ReviewDecisions** is the rules for one
decision and the merge of a file with the queues (`review/schema.rs`,
`review/merger.rs`). **PackSelection** is `Resolve`: the policy, the tiers, the priority
of decisions, the collision groups, and the Kuwiki snapshots that enter the experimental
pack (`pack/policy.rs`, `selection.rs`, `collisions.rs`, the resolver of `builder.rs`).

**ReviewPipeline** runs the commands as processes over the files they leave for one
another: `StartImport` and `WriteReport` (four files, in place), `StartAudit`,
`ReplayDictionary`, `ParkAudit` and `InstallAudit`, the same four for the queues,
`StartBatch`, `RankPool` and `WriteBatch`, the four of the validation, and `StartBuild`,
`ReadQueues`, `ResolvePack`, `FinishBuild`. A job remembers what it read, so each
later step works from that. An installation rename may fail and be rolled back, and
the rollback may fail (`Renamed`). `Crash` kills a process anywhere; only queue
generation and validation hold lock files (that of the pack build is PackBuild's
subject), and `RemoveLock` is the operator. `FetchDictionary`, `RegisterRevision` and
`EditDecisions` are people.

**KuwikiReview** has the operators of the round: which words of the corpus are unknown
and worth a review (`QueueOf`), which lists a generator accepts (`QueueAccepted`,
`PriorAccepted`), what it chooses (`Chosen`), what the loader checks of a registered batch
(`Accepted`) and `ExperimentalLexicon`. **KuwikiBatches** runs it, and cuts the commands
wherever they read something a second time:

* The evidence builder hashes the corpus (`StartBuild`, `vocabulary_evidence.rs:176`),
  resolves the lexicon (`ResolveLexicon`, 244), resolves it again for the fingerprint
  (`TakeFingerprint`, 266), reads the corpus (`ReadCorpus`, 279) and writes summary,
  queue and hashes in place, one file after the other.
* A generator (one per batch) hashes summary and queue (`StartBatch`, `HashQueue`,
  `kuwiki_batch.rs:322-323`), looks both hashes up in `artifacts.sha256` (`CompareSummary`,
  `CompareQueue`), opens the summary again (`ParseSummary`, 338) and compares what it
  names with the corpus and the lexicon there are (`CompareCorpus`, `CompareLexicon`). Then it
  opens the queue again (`OpenQueue`, 435), lists the earlier batches (`ListPriors`, 557),
  hashes each (`HashPrior`, 591) and opens it again for its words (`ReopenPrior`, 641), and
  chooses (`ChooseCandidates`). It stages, removes the old directory file by file and renames.
* People make another partition, perhaps one that was there before (`PartitionAgain`: an
  index into `Train` stands for the content and so for its hash), decide (`Decide`), pin a
  batch in the code (`Pin`: `KNOWN_BATCH_SPECS` is compiled in, so a process keeps the pins
  it was started with, `known`) and list it in `sources.toml` (`Register`), which every
  process reads.

Two variables are history. `mixed`: the build whose hashes are on disk read a corpus, or
resolved a lexicon, other than the one its summary names. `disturbed`: generators under
which something was replaced that they were reading, the evidence or an earlier batch, or
that looked up the hashes of a mixed build. Of a batch, the fields `verified` (the lexicon
its generator compared the evidence with), `pins` (the earlier batches registered then) and
`undisturbed` are history too. The sums beside a batch's files are abstracted by `Whole` and
`Torn`; those of the evidence are modelled, since a crash can leave them stale.

## 3. The runs

| Run | Bounds | What it shows |
| --- | --- | --- |
| `release_install` | 4 runs | `ReportIsTrue`, `NothingDamagedIsReachable`, and every step is a step of AtomicInstall or changes nothing that can be recovered |
| `pack_build` | 2 processes, 3 builds | `OverlapNeedsRobbery`, `PackIsWhole`, `FailureKeepsPack`, `LossNeedsStranding`, `LockIsReturned` |
| `lock_file` | 2 processes | mutual exclusion **fails** |
| `artifact_install` | 3 runs | "exactly as it was" **fails** |
| `engine_handle` | 3 threads, 1 failing status, lists of at most 1 item, calls without bound | `EngineUsedWhileLive`, `ExceptionTellsItsOwnFailure`, `ListsFreedExactlyOnce`, `CloseFrees` |
| `error_pointer` | 2 threads, 2 failing statuses | the documented life of the message pointer **fails** |
| `production_rebuild` | 2 processes, 3 commands, 2 edits, 1 stop; 2 versions of the registry, configuration, decisions and rules; 2 packs, one with a model | `VerifiedIsDerived`, `OnlyUpgradeOrRaceBreaksRebuild`, `RebuildChangesNothing` |
| `production_upgrade` | 1 process, 2 commands, 1 edit | a rebuild after a change of rules **fails** |
| `engine` | 6 compiler inputs, every damage of one cell or of the header, 4 appended batches, 10 queries, 2 loads | `IndexAnswersAsScan`, `TrieIsItsLexicon`, `FuzzySearchIsExact`, `AnswersAreDetermined`, `PredictionsNameWords`, `CompiledIsPredicted`, `ProbeExplainsRefusal`, `AppendKeepsPredictions` |
| `review` | 3 commands started, 2 at a time; 4 dictionaries, 2 decision files, batches of 1 | `ReviewedAsSeen`, `MembersFollowTheGroup`, `TrustSubsets`, `OnlyUndecodableLinesFailTheAudit`, `OnlyTwofoldSuspicionFailsQueues`, `SoundGroups`, `CleanOffersTakeEffect` |
| `kuwiki` | 3 batches of 2 words, 2 partitions of the corpus, 3 verdicts, 3 commands or decision files, 2 commands at a time | `RegisteredWordsStayAssigned`, `EvidenceIsOneBuild`, `OffersAreUnknown`, `StageOutlivesBatch` |
| `kuwiki_repeat` | 2 batches, one command at a time, the rest as `kuwiki` | no word in two batches **fails** |

Every passing run but `kuwiki` also checks the type invariant of its module. Every checked
property has a mutant in `PROJECT.json`: a plausible mistake, written next to the
definition it replaces, under which TLC finds the property violated at the same
bounds. So none of them holds only because the case never happens.

Why the bounds are enough:

* `release_install`: a bad case needs a run that strands the old bundle, one
  killed while it recovers, one that fails again and one that installs. The
  theorems lift the bound.
* `pack_build`: the double removal needs one process that releases and one that
  acquires in between, and a third build to be the second holder, by the process
  that released; losing a pack needs a build that strands it and a later one
  that removes the backup.
* `engine_handle`: two closes race while a query runs. The theorems lift the
  number of threads, statuses and items.
* `production_rebuild`: the mistakes in the mutants need at most two commands
  and a stop; three commands allow a rebuild, a command of another process in
  the middle of it and a second rebuild. Processes start in the committed
  state of a fresh checkout, possibly with an import beside it, so every other state
  is reached by commands. The
  versions are symmetric (nothing orders them), so TLC checks one of each set
  of permuted states.

* `engine`: the words are chosen so that they are neighbours, prefixes, differ in case,
  in a diacritic, by a transposition or by a neighbouring key, and two share a
  normalized form; the second load replaces or extends a filled engine. Every cell of
  every pack takes every value up to one past the largest index.
* `review`: the dictionaries hold a conflict group, a held word, a word outside the
  alphabet, a refused line, an undecodable line and a word suspicious for two reasons;
  in the second one another word stands where the first one's group was. At the start
  every command has run, and another dictionary may have been imported. Two running
  commands are enough for each read to be separated from the next by a swap, and a
  third for the command that meets the mixture.
* `kuwiki`: an exclusion of an earlier batch needs two batches; of the three, the first
  is there at the start. Pins, registrations and partitions are not counted. The races
  need a build beside a generation, or two generations, and a decision file: three starts.
  Neither exception can be left out: without `disturbed`, or without `mixed` in it,
  TLC finds `EvidenceIsOneBuild` violated, and without `undisturbed` the properties of the
  batches. The theorems lift the bounds.

`CHECK_DEADLOCK FALSE` is given where the system stops by itself: the number of runs
or commands is bounded, or the last lock file is abandoned. `engine_handle` is
checked for deadlock: threads can always call again.

### The properties

* `ReportIsTrue`: "nothing was replaced", "restored", "installed" and the two texts
  that name the backup as the only copy are true of the directories when the
  command ends.
* `NothingDamagedIsReachable`: a half-removed backup is never the one a later run
  would restore. This is why the release looks before it removes.
* `ImplementsAtomicInstall`: see AtomicInstall.
* `OverlapNeedsRobbery`: kills, failures and stale files never let two builds in;
  only the removal of somebody else's file does.
* `PackIsWhole`, `FailureKeepsPack` and `LossNeedsStranding` say what holds of the
  weaker swap while no two builds overlap: no mixture, no damage by a failure
  that is reported, and the last copy is lost only when an earlier build had
  been stopped between the renames or had failed twice. One error comes after the pack
  was replaced, that of `lock.release()?`; `FailureKeepsPack` says of it that the new
  pack is there as a whole.
* `LockIsReturned`: every return path gives the file back, unless the process was
  killed or the removal failed.
* `EngineUsedWhileLive`, `ListsFreedExactlyOnce`, `ExceptionTellsItsOwnFailure`,
  `CloseFrees`: memory, lists, messages and progress of the bindings.
* `VerifiedIsDerived`: verification compares claims. When it passes, the claims are
  true of the data, unless an input was swapped between two reads of one build.
  The exception is exact: `races` holds what was swapped, and each of the three
  occurs (TLC finds a counterexample when it is taken out).
* `OnlyUpgradeOrRaceBreaksRebuild`: from any state, a rebuild that nothing disturbs
  succeeds, with two exceptions: the partition on disk was made by other rules, or its
  documents are not of the import its manifest names, because that import was installed
  while the partition was split. No edit, no killed or failed command and no
  earlier single command is a third.
* `RebuildChangesNothing`: once a rebuild succeeded and the inputs stay, further
  rebuilds, partitions and pack builds, also two at a time, leave every output
  as it is. With one exception, found by the proof: a partition split while its import
  was swapped has the manifest of one import and the documents of another, or the
  reverse; a rebuild keeps it, the next split of `partition-corpora` differs.

* `IndexAnswersAsScan`, `TrieIsItsLexicon`, `FuzzySearchIsExact`: the pruned searches lose
  nothing and invent nothing, against definitions that visit every entry. The index's
  radius of two unit edits is argued on paper in `index.rs`; this checks it.
* `AnswersAreDetermined`: candidates are totally ordered, so the order of a hash map never
  shows. It needs normalized forms that are those of the words, as the builder's are.
* `PredictionsNameWords`, `ProbeExplainsRefusal`: what a damaged file can do. An accepted
  file may be wrong, but never names a word that is not there.
* `CompiledIsPredicted`, `AppendKeepsPredictions`: compiler and engine agree on positions
  and order, through the back-off: each record of a context is told once, and nothing else.
  The first needs unique normalized forms: the compiler numbers a form by its last entry,
  the engine looks up the first. The resolver guarantees that they are unique. An empty
  form is compiled like any other and is never looked up.
* `ReviewedAsSeen`: identifiers are hashes of content, so a decision on a word that changed
  since is about nothing. "As seen" means form, flags and morphology, up to composition
  and case; the part of speech is not part of what is compared. That is what makes the reviewed pack safe although the
  builder checks only that the queues and the report are each whole.
* `MembersFollowTheGroup`: members of a conflict group are targets of other queues too;
  a decision on a member does not go around the group's. Where the groups have their
  members' forms a member has one group. Where they do not (see `SoundGroups`) two groups
  may share a member, and one of the two lets it in: that was found by the proof, and
  the property says it.
* `TrustSubsets`: the experimental pack of the same inputs can be built whenever the
  reviewed one can, and contains it entry for entry.
* `OnlyUndecodableLinesFailTheAudit`, `OnlyTwofoldSuspicionFailsQueues`: exactly which inputs
  make these commands fail when nothing changed beneath them; of the queues, when the
  audit they are given would pass. Both are
  surprising: the importer does not count a line it cannot decode, and the audit's
  replay does; the audit counts suspicions, the queue generator suspicious words.
* `SoundGroups`: conflict groups are looked up by line number in whatever dictionary is
  there. The exception says exactly when they are wrong.
* `CleanOffersTakeEffect`: a vocabulary offer without a flag, approved, is in the reviewed
  pack. It speaks of batches whose flags and pool are those of the queues that are
  there; what a swap between the two readings does, it does not say.
* `RegisteredWordsStayAssigned`: the exclusion goes by the directories that are there and by
  what was read from them, the registration by the pins in the code and the list. A batch
  excludes every earlier one that was registered when its generator compared the lexicon,
  as it is pinned, and offers none of the words it excludes, unless another generator
  replaced an earlier batch meanwhile.
* `EvidenceIsOneBuild`, `OffersAreUnknown`: what the hashes of evidence are worth after
  crashes, registrations and partitions that come back, when each file is hashed in one
  step and opened in a later one. They hold for a generator that nothing disturbed. The
  builder hashes the corpus before it reads it and takes the fingerprint of the
  lexicon after it used it; neither is safe, and `mixed` says when it matters. That a
  writer in the middle disturbs a reader is no loss to the property: evidence that was
  left half written before the generator began is refused.
* `StageOutlivesBatch`: the old directory is removed without a backup, and a generator begins
  by removing the stage. It is safe because no generator begins while a registered
  batch does not load.

### Where the code and its documentation differ

* **The lock** (`lock_file`): `test_importer_lock_race_prevention` expects that a
  second acquisition fails. `release` removes the file and `Drop` removes the path
  once more (`corpus/importer.rs:95-106`); a process that acquired in between
  loses its file, and a third gets in.
* **"or leaves it exactly as it was"** (`artifact_install`): a run is killed between
  the renames, the next cannot fully remove the backup and is not told
  (`pack/evaluation.rs:547`), fails to install, and publishes the half-removed backup
  in the rollback while it reports "unchanged".
* **"valid until the next failing call"** (`error_pointer`, `docs/integration.md:94`):
  a successful guarded call frees the message as well.
* **"Derived outputs ... are what a rebuild regenerates"** (`production_upgrade`,
  `production.rs:16`): `partition_stale` compares the canonical input only;
  `verify_partition_manifest` (`language_model.rs:515`) also refuses other policy and
  normalisation versions. When one of those constants changes, a rebuild keeps
  the old partition and fails in `build-language-model`, every time, until
  somebody runs `partition-corpora` by hand. All of them are still `v1`, so
  this waits for the first change.
  The same sentence has a second exception, which `OnlyUpgradeOrRaceBreaksRebuild` states:
  `partition_corpora` verifies the import (`partition.rs:76`) and reads its manifest again
  for the hash it records (80). An import installed in between leaves a partition with
  the hash of the new import and the documents of the old one. `partition_stale` compares
  the hash and keeps it, and the model build fails on the number of documents
  (`language_model.rs:666`), every time, until somebody runs `partition-corpora` by hand.
  TLC finds it in `production_rebuild` when the exception is left out.
* **"batch001 ∩ batch002 must be empty"** (`kuwiki_repeat`,
  `test_no_repeat_assignment_invariants_and_error_cases`): a generator leaves out the words of
  batches with a smaller number (`kuwiki_batch.rs:557`). An earlier batch that is generated
  again over new evidence takes words of a later one, and from then on every later
  generation fails with "Historical duplicate detected" (708). One command at a time is enough
  for it; with two at once a later batch can also list the earlier ones while the
  directory of one is being replaced.

Smaller ones, met while modelling and followed by the models as the code has them,
without a run of their own:

* `review/queues.rs:176-180` reads `seed_words` from a report of the audit, which never writes
  that field, so it is the empty default and no word is flagged as a possible duplicate
  of a seed form; `docs/lexicon-review.md:180-181` says "every other import or seed form".
* `docs/RELEASE_PROVENANCE.md:78-79` has orphan decisions fail the verification;
  `production.rs:286` looks at the number the stored report records, so an orphan added
  since the last validation passes.
* The review snapshot of a pack is loaded without comparing the hashes it records with
  the current files (`pack/builder.rs:134-135`, 230-240).
* `docs/pack-policy.md:23-24` promises valid entries without unresolved conflict groups;
  members of undecided groups and lines the parser refused enter `experimental-full`
  (`pack/selection.rs:219-235` and 261-283).
* `kuwiki_batch.rs:423` begins a "Full Fail-Closed Provenance Verification": the queue is hashed
  (323) and opened again (435), and evidence written in between gives a batch that
  records one queue and is chosen from another.
* `docs/PACK_COMPATIBILITY.md:39` has a payload shorter than declared reported as truncated;
  it is refused as corrupt, since its length differs from the declared one (`engine.rs:189`).
* A vocabulary batch may offer a member of a conflict group that was already decided;
  the approval then does nothing. It is flagged, so `CleanOffersTakeEffect` holds.

## 4. Fairness

Only two modules assume fairness, and only for something already begun.

* **PackBuild**: weak fairness of `BuildStep(p)`: a build that holds the lock makes its
  next call. The code waits for nothing there: a lock it cannot take is an error.
  No process has to start, and nobody has to clear a stale lock.
* **EngineHandle**: weak fairness of the steps of a thread inside a call. No thread
  has to make another call. That `close()` is not starved rests on the JDK: a new
  reader of a `ReentrantReadWriteLock` queues behind a writer that is first in the
  queue. The model lets no reader in while any writer waits. With a reader
  queued in front of the writer the JDK may let another one pass; the places
  the threads can then be in are those of a reader that came before the writer
  asked, so no state is missed.

The other modules state no fairness; their properties are safety.

## 5. What is proved

All for every value of the constants: any number of processes, commands, edits and
batches, any dictionary, corpus, decisions and alphabet that the assumptions below allow.

* **ReleaseInstallProofs**: `TypeCorrect`, `ReportsAreTrue`, `NothingDamaged` and
  `NeverLost` (`Spec => ImplementsAtomicInstall`). `ReportIsTrue` is not inductive: that a
  rollback restores what the run found needs to know, at each call, which of the
  three directories exist. The inductive invariant `IInv` adds `StageReady` (the
  stage is complete from the last write to the rename), `SlotsAtStep` (what exists
  at each call) and `KeptSoFar` (until the installation nothing recoverable has
  changed). `StepRefines` is the refinement step: only `Install` changes
  `Recoverable(dir)`, and then to a later whole bundle.
* **PackBuildProofs**, of the lock: `HoldersOwnTheirFile` and, from it, `OverlapOnlyByRobbery`.
  If two were inside and neither robbed, the one file would be both's. Of the builds:
  `BuildsUseTheGuard` (`Spec => LockSpec`: a build leaves the lock
  alone or takes a step of its guard), which carries the lock's theorem over to
  `BuildsOverlapOnlyByRobbery`; `TypeCorrect`, `WholeWhileAlone` (`PackIsWhole`) and
  `FailuresKeepThePack` (`FailureKeepsPack`). `PackIsWhole` is not inductive: the renames
  need to know what the stage holds and where the previous pack is. `IInv` adds
  that an absent directory has no version (`AbsentHasNoVersion`), that without an
  overlap one process at most is inside (`OneInside`), and what that one relies on
  at its next call (`BuildKnows`: `StageIsOurs` and `PackKept`), and that a build
  in `release` keeps all others out as long as its file is there (`ReleaseKnows`). A step of a process
  outside touches no directory (`OutsideTouchesNothing`), so only the steps of the
  one inside (`StepOfBuild`) have work to do. `NothingElseLoses` (`LossNeedsStranding`)
  needs to know across builds where the last copy is: `CopyKept` says that it is the pack
  directory, or the backup between the two renames, as long as no build was stranded and
  none overlapped.
* **ProductionRebuildProofs**: four theorems, each on the invariant of the one before.
  `TypeCorrect` adds what a process holds at each step (`Fits`) and that it still has a
  pack to build where the code takes the first one of the list (`Building`).
  `VerifiedIsReal` (`VerifiedIsDerived`): by `Derived`, every output, and what each process
  is about to write, is made from what its manifest says unless `races` holds the input
  that was swapped. `RebuildsRepair` (`OnlyUpgradeOrRaceBreaksRebuild`): `Undisturbed` says how
  far a rebuild has come at each step (`Reached`), and that all that it read is what
  it would read again; a partition that it keeps by its hash is one that the model build
  accepts, unless it is one of the two exceptions. `RebuildsRepeat` (`RebuildChangesNothing`): after a
  success every output is what a rebuild of these inputs makes (`OutputsFresh`), and nobody
  is about to install something else (`Idempotent`).
* **KuwikiBatchesProofs**: `BatchNeverLost` (`StageOutlivesBatch`). `IInv` has what a generator
  carries at its steps (`JobFields`), that what is going to be staged is whole, and the
  stage until it is renamed (`StagingIsWhole`), and `LostIsStaged`: of a registered batch
  whose directory is not whole the stage is, and no generator is on its way to clean it.
  The hard step is the comparison of the lexicon: by `ResolvedAsPinned` a lexicon that can
  be resolved has every registered batch whole, so a generator that was started on a lost
  one fails there (`VerifyJob`). `AcceptedEvidenceIsOneBuild` (`EvidenceIsOneBuild`): `BuildInv`
  follows the three files through crashes and partitions that come back, `Evident` what a
  generator knows of them at each step, as long as nobody writes them: what it hashed is
  what was looked up, and what it opens is what it hashed. `RegisteredWordsAreNotOffered`
  and `OfferedWordsAreUnknown`: `PriorsHeld` says of a generator at each step that the
  batches registered when it compared the lexicon are whole, as pinned, and still to be read
  or already excluded, and that the words it leaves out are those of the batches it hashed;
  `Contents` carries that into the job, the stage and the directory. These rest on facts
  about the queue as an algorithm: it is sorted, and each word of it occurs in the corpus
  and is unknown (`QueueFacts`).
* **ReviewPipelineProofs**: `TypeCorrect`, and a theorem for each of the seven properties of
  the `review` run. The inductive invariant `Inv` adds to the types what is true of the
  files (`FilesHold`: the import's reports are those of one dictionary; queues are absent
  or could have been generated) and of what each process holds (`JobsHold`: its result is
  a function of what it recorded as read). Everything else follows from `Inv` by
  facts about the algorithms, for every dictionary:
  * The audit replays the importer's loop. `KeptAndLater` and `LinesCounted` divide the lines
    into blank, refused, undecodable, first and repeated ones, so the counts it compares agree
    exactly when no line is undecodable (`AuditOutcome`).
  * The queue generator compares its own counts with those of the audit. Suspicions are
    counted by reason, suspicious words once; the two sums are equal exactly if
    no word has two (`SuspicionsCounted`, `QueuesOutcome`); groups and rejections always agree.
  * `Precedes` is a strict order, so among competing candidates of a form there is a first
    (`TopExists`). Approved candidates precede the others, so what the reviewed pack
    selects, the experimental one selects (`ReviewedIsInExperimental`), and what is
    refused of the first is all that can be refused of the second.
  * Identifiers of different records differ (`IdentifiersDiffer`), so at most one decision is about
    an entry, and what the entry is, the decision has seen (`ReviewedIsApproved`).
  * The ranking of a vocabulary batch is a strict total order (`RankingIsTotal`), so the offers
    are words of the pool (`OffersAreOfThePool`); an offer without a flag has no competitor
    once it is approved (`OneMoreCandidate`).
* **EngineHandleProofs**: `TypeCorrect`, `NoUseAfterFree`, `ListsNeverLeak` and
  `ExceptionsTellTheirOwnFailure`. `IInv` adds who holds which lock at which place
  (`LockMatchesPlaces`), what the pointer says of the memory (`HandleMatchesMemory`)
  and whose message is in the cell when the bridge throws (`MessageMatchesCall`).
  There is one lemma per conjunct, each with one step per action.

* **EngineProofs**: `TypeCorrect`, `ProbeAgreesWithLoad` (`ProbeExplainsRefusal`),
  `PredictionsAreWords` (`PredictionsNameWords`) and `AppendLeavesPredictions`
  (`AppendKeepsPredictions`), for every file of the model: whatever compiles, with any of the
  damages. The compiler's payload is a list of numbers (`CompiledPackIs`: the cells of
  entries, groups and contexts, each a recursion along a list), so every damage of it is a
  file whose header and probe agree (`FilesAreGood`). The decoder is followed in its three
  nested loops: `ReadingStays` says of a loop that stops at its first error what stays
  true of what it has read, and `EntriesAreRead`, `PredictionsAreRead`, `ContextsAreRead`
  use it, so whatever is accepted is a lexicon within the limit and two indexes
  of positions in it, none twice (`PayloadIsRead`). `Inv` has that of the engine, and
  that the index is the sorted lexicon. A look-up in the index is a partition point: with
  `SortedIs` (the positions are in the order of forms, equal forms by position) it is the
  first entry of the form (`FindIs`). So after an append a word is found where it was, or
  where no prediction can refer to (`FoundAgain`).
* **EngineProofs**, the round trip: `CompiledRecordsArePredicted` (`CompiledIsPredicted`), for
  every input of the compiler. `PiecesInPlace` says where in the payload each entry, context
  and prediction is; from there reading undoes writing level by level
  (`EntryReadBack`, `PredictionReadBack`, `GroupReadBack`, `ContextReadBack`, `SectionReadBack`),
  so what is decoded of an undamaged pack begins with the input's entries and has the
  index of its records (`CompiledReadBack`). The invariant `Derived` keeps that of the engine
  (`LoadKeepsDerived`, `AppendKeepsDerived`): it is stronger than the property because a
  query sees the lexicon and the indexes, not the file. On the side of queries, the compiler
  numbers a form by its last entry and the engine finds the first, the same one when
  forms are unique (`WordIsFound`); so the context that is looked up is the
  compiler's or no context (`ContextIsFound`), and its group is the set of its records, each once
  (`RecordsAreGroup`). The limit of the call cuts nothing, since a group has no more
  than its own limit (`GroupsFit`, from `BoundsAssumption`).
* **EngineProofs**, the trie: `TrieHoldsLexicon` (`TrieIsItsLexicon`). The flat arrays alone do
  not say what a node stands for, so the proof gives each node two ghosts: the path of
  letters that leads to it and the run of sorted forms that begin with it. A node is waiting
  on the work stack, exactly once and with its own path and run (`StackedStill`), or it is
  finished: it is marked final exactly when its path is a form, and its children, side by side, are the groups
  of its run by the next letter, in ascending order. One step of `build` takes the top of the
  stack and puts its groups in its place. A path determines its node, and is a prefix of a
  form, so there are finitely many nodes and the construction ends with nothing waiting. What is
  then on the arrays is the lexicon: `Contains` follows a path, the depth-first walk
  of `FindByPrefix` meets the forms in ascending order, each once, and two ascending
  lists of the same words are one. The invariant `Rebuilt` says of the engine that its trie
  is the one `build` makes of its lexicon.
* **EngineProofs**, the fuzzy search: `FuzzySearchFindsNear` (`FuzzySearchIsExact`). The table of
  distances is a function of the two words (`TableGrows`, `TablesAgree`), and its first rows
  depend on the first letters only, so the rows that the walk has kept for a path are those
  of every word below it (`RowIsRight`). Pruning is the delicate part: a transposition reaches back
  two rows, past the row that is all over the limit. It is sound because its source
  costs at most one less than a cell of the last row (`DiagonalStep`), which the swap pays again,
  so once a row is over the limit all later ones are (`OverStays`, `PrunedIsFar`). The walk's
  invariant `Hunting` says where each near word is: reported, or under a node that
  waits; what is on the stack hangs under the current path at the depth the stack says
  (`HangStill`), so cutting path and rows back to that depth is right. The trie is that of
  the stripped forms, each with the run of positions that have it: the runs divide the
  order (`RunsDivideForms`), so no position is lost between words and entries
  (`RunsFound`).
* **EngineProofs**, the candidates: `IndexLosesNothing` (`IndexAnswersAsScan`), under
  `FormsAreNormal`. This is the argument that `index.rs` gives on paper for its radius of two. The
  weighted distance of two words is at least three times the unit distance of their
  stripped forms, cell by cell (`CostsCompare`, `TablesWithin`, `DistancesCompare`: one of the tables is
  turned over, since the two functions walk the words in opposite roles). So an entry outside the
  radius is over the limit of eight, and not equal to the query once stripped either, since a word is at no
  distance from itself (`NoDistance`): scoring it changes no candidate (`FarIsSkipped`).
  Scoring the others in ascending order then ends where scoring all ends (`SkippedScores`), and both
  searches complete a prefix with the first entry of a form (`FindsAsScan`). The condition is
  needed because stripping a form normalizes it first, which the weighted distance does not;
  a damaged pack may hold a form that normalization would change. TLC checks the property
  for those packs too. `UndamagedIndexLosesNothing` discharges the condition where nothing was
  damaged: if the forms given to the compiler and those appended are normalized (`NormalInputs`), the
  round trip and the appends keep every form so, and the property holds whenever the pack
  loaded last is one the compiler wrote.
* **EngineProofs**, the answer: `AnswersAreOrdered` (`AnswersAreDetermined`). A rank is four
  numbers compared in turn (`KeyOfCandidate`, `KeysOrdered`), then the text, so candidates
  with different texts are in a strict total order (`CandidatesOrdered`), and each has one place in the
  ranking (`EachRankedOnce`). That texts differ is an invariant of the scoring stages: a candidate is kept
  under the form of its text (`KeptUnder`), whichever stage put it there or replaced it
  (`PrefixStageIs`, `ScoreEntryKeeps`, `ScoreAllKeeps`); the first stage finds an entry for each
  word of the trie, since `Rebuilt` says that trie and lexicon agree. Showing a text in lower case
  leaves its form, so the answer tells none twice (`AnswerIsApart`).

### Assumptions

* Numbers are naturals and special values are none of the others
  (`MaxRunsAssumption`, `NobodyAssumption`, `StatusAssumption`, `ItemsAssumption`,
  `EndingsAssumption`, `BoundsAssumption`, `NoneAssumption`, `ValuesAssumption`,
  `BatchesAssumption`, `LineAssumption`): the code has options and enumerations there.
* `BoundsAssumption` also says that an answer may have as many predictions as a context
  (50, against 16 and 12 in the code).
* `FormatAssumption`, `InputsAssumption`: words are lists of letters, and the lists a pack is
  compiled from, or appended, hold records of spelled words and unsigned numbers, a
  bigram one word of context and a trigram two. That is what the Rust types of `compile.rs`
  say; that counts, probabilities or words are consistent is checked by the model.
* `OrderAssumption`: the list of production packs is not empty and names every pack
  (the constant `PACK_IDS`).
* `LettersAssumption`, `AlphabetAssumption`: marks that normalization drops are not letters;
  lowering and removing a diacritic are done after one step; the alphabet, the
  word-internal punctuation and the space are disjoint. All true of the Unicode tables and of the
  constant in `alphabet.rs`.
* `SettledAssumption`, `QueriesAssumption`: normalizing a word of a dictionary, or a query, twice
  is normalizing it once. NFC and lower case have that property; the constants `Composed` and
  `LowerOf` alone do not. `CaseAssumption`: a word and the same word in lower case have one
  normal form; again true of Unicode, not of any two tables.
* `PipelineAssumption`, `TrainAssumption`: dictionaries, corpora and documents are finite lists.
* `DecisionsAssumption`: a decision file passes the checks of its loader, and names the
  word that the identifier was made of (a reviewer copies both from one queue).
* `SourcesAssumption`: the seed, the frequencies and the registered Kuwiki batches are as their loaders
  return them: seed words are eligible and differ after normalization, each candidate of
  a batch has its decision.

### Recursion

The prover has no induction rule that can be used here: the library's theorems take an
operator. WordFacts does without. The strict subsets of a finite set are well-founded
(`FS_StrictSubsetOrderingWellFounded`), so the initial segments of the numbers are, so every
non-empty set of numbers has a least one (`LeastNumber`); hence a *set* that has 0 and the
successor of each of its numbers has all (`Induction`), which is induction for a property
that can be written as a set. `Recursion` builds from it the function that a recursive
definition along a sequence means, and so what the importer's loop, the
composition of letters or the numbering of sorted words compute is proved for
every input, not only for the bounded ones.

## 6. What is only model-checked

* Liveness (`LockIsReturned`, `CloseFrees`): outside the prover's reach.
* `IndexAnswersAsScan` in the states whose lexicon holds a form that is not normalized, which only a
  damaged pack or an entry made outside the builder brings. `engine` checks these too,
  at its bounds. Every other safety property of the passing runs is a theorem.
* The five disagreements of the violation runs are counterexamples, not theorems.

## 7. What the models leave out

* **File contents and hashes.** Two things with the same hash are the same thing.
* **One release, one evaluation pack at a time.** Two release commands with the same
  output share a stage; no lock prevents it. Listed as a hazard.
* **ProductionRebuild**: verification reads everything in one step, so an edit in the
  middle of a verification is not seen. The locks are ideal there (LockFile shows
  what the real one does). An edit of the registry is one that leaves the licensing
  block of the model's manifest equal, since otherwise the model simply does not
  load. Both swaps of a partition (data and report) are one, a failure between them
  is a `Stop` that leaves the new data. A stopped swap that leaves no directory
  stands for every damage, because a manifest that cannot be read is treated
  like a missing one. Downloading is one step of `Rebuild`.
* **Rules change only while no command runs** (`Upgrade`): a running process has its
  constants compiled in.
* **Engine**: floating-point scores and explanation strings, which never decide an answer;
  the fields of an entry no query reads; memory accounting. Of the frequency metadata
  the zipf value is kept. A character is one grapheme.
* **Review**: the Markdown and CSV forms of queues, offers and reports; the audit's samples,
  its length, flag and morphology statistics and its benchmark. Offers of equal rank
  are ordered by the hash of their target in the code, by line in the model. Of the
  members of a group with the identifier a decision selects, the code takes the first of a
  list that is sorted by word and line and then, stably, by identifier
  (`review/queues.rs:556`). That is the one of the least line, which the model takes, unless
  the words differ in composition.
  A command that reads several files one after the other reads some of them in one step
  (`LoadInputs`; `StartBatch`: the decisions and the flags of the fourteen queues). The
  validation and the build look for the lock file of their own command only, as the
  code does; that of a pack build is modelled in PackBuild.
* **Kuwiki**: one evidence builder and one generator per batch; two of the same are listed as
  a hazard. A resolution of the lexicon is one step, although it reads one registered batch
  after the other. A file is written in one step. The files of one earlier batch are checked
  against its manifest and its `artifacts.sha256` in one step. The partition is one file, so the
  other five provenance entries of the summary follow it. A command starts with the pins
  of the latest data-builder. Noise rules for URLs and wiki markup, other than four protocol words made
  of Kurmanci letters, are subsumed by the alphabet rule, which refuses the
  characters they look for. Counts of contexts are left out. The lexicon is that of the
  seed and the registered batches; the Hunspell queues enter it in ReviewPipeline.
* **Not modelled**: acquisition and the release scripts (planned); corpus statistics,
  reports, evaluations, benchmarks, review inspection tools, command lines and platform
  builds. These last are sequential, write what they computed and have no state that
  others rely on.
* **Swift**: the handle lives exactly as long as the object; the runtime, not this code,
  decides when that is.

## 8. Plan

Done: the installers, the lock, the bindings, the production chain, the engine with its
pack format, the review pipeline with pack selection, and the Kuwiki batches; the proofs of
all of them. Next, in order:

1. **ReleaseAssembly**, composing ProductionState with ReleaseInstall: the builder verifies,
   then reads the pack files again (`release.rs:673`), and `verify_release_bundle`
   re-checks the result. Run: one release, one build in between.
2. **Acquire** (download, `.part` file, hash, retry) and **PublishBundle**
   (`scripts/release/publish-bundle.sh`, a release created in several calls to a service).

Abstract specifications worth stating: AtomicInstall (done), an ideal lock for
LockFile (refuted by `lock_file`; to be implemented by a guard that removes once),
and a derived-outputs machine in which a rebuild is one step, for ProductionRebuild.
