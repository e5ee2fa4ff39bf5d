--------------------------- MODULE ProductionState ---------------------------
(***************************************************************************)
(* What the production state of the repository consists of and what        *)
(* verify_production_state (data-builder/src/production.rs) says of it.    *)
(*                                                                         *)
(* The authoritative inputs are what people commit: the corpus registry,   *)
(* the n-gram pruning configuration and the review decisions, each one of  *)
(* a few versions, with the Kuwiki dump, which is on this machine or not,  *)
(* and the version of the partition and normalisation rules the installed  *)
(* data-builder was compiled with.  The derived outputs are a chain:       *)
(*                                                                         *)
(*   registry + dump  -> canonical import  -> partition -> language model  *)
(*   decisions + language model -> packs                                   *)
(*                                                                         *)
(* A SHA-256 in a manifest is the value that was hashed.  What a manifest  *)
(* says of its origin and what its contents were really made from are kept *)
(* apart (manifest/docs, config/pruned): nothing later compares the two.   *)
(***************************************************************************)
EXTENDS Naturals, Sequences

CONSTANTS
    Registry,      \* versions of data/source-registry/corpora.toml
    Config,        \* versions of data-builder/config/ngrams.toml
    Decisions,     \* valid versions of the review decisions
    Invalid,       \* review decisions that fail their validation
    Policy,        \* versions of the partition and normalisation rules
    Counts,        \* minimum n-gram counts a model can be built with
    Production,    \* PRODUCTION_LANGUAGE_MODEL_BUILD
    Pack,          \* the pack ids of the policy
    Plain,         \* those whose model_profile is "none"
    None           \* an output that does not exist

ASSUME ValuesAssumption ==
    /\ Invalid \notin Decisions
    /\ Production \in Counts
    /\ Plain \subseteq Pack

Canonical == [registry : Registry, kuwiki : {"imported", "skipped"}]

(* PartitionBuildManifest, and the partition with the documents it holds. *)
PartitionManifest == [canonical : Canonical, policy : Policy]
Partition == [manifest : PartitionManifest, docs : Canonical]

(* LanguageModelManifest, and what the statistics were computed from. *)
Model == [registry : Registry, canonical : Canonical, manifest : PartitionManifest,
          config : Config, decisions : Decisions, counts : Counts,
          pruned : Config, docs : Canonical]

PackContents == [decisions : Decisions, model : Model \cup {None}]

ASSUME NoneAssumption == None \notin Canonical \cup Partition \cup Model \cup PackContents

Inputs == [registry : Registry, config : Config, decisions : Decisions \cup {Invalid},
           dump : {"present", "absent"}, policy : Policy]

Outputs == [canonical : Canonical \cup {None}, partition : Partition \cup {None},
            model : Model \cup {None}, packs : [Pack -> PackContents \cup {None}]]

-----------------------------------------------------------------------------

(* check_authoritative_inputs *)
InputsValid(in) == in.decisions # Invalid

(* verify_canonical_manifest: the import exists and is of this registry. *)
CanonicalVerifies(in, out) ==
    /\ out.canonical # None
    /\ out.canonical.registry = in.registry

(* Mutant: the manifest says what is on disk, not what was imported. *)
StagedAsFound(in) == [registry |-> in.registry, kuwiki |-> in.dump]

(* What import_all_corpora stages; a dump that is not there is skipped. *)
Staged(in) ==
    [registry |-> in.registry,
     kuwiki |-> IF in.dump = "present" THEN "imported" ELSE "skipped"]

(* Mutant: every rebuild imports again. *)
NeedsImportAlways(in, out) == TRUE

(* Mutant: the import is taken as complete although it skipped the dump. *)
NeedsImportIgnoringSkips(in, out) == ~CanonicalVerifies(in, out)

(* canonical_needs_import *)
NeedsImport(in, out) ==
    ~(CanonicalVerifies(in, out) /\ out.canonical.kuwiki = "imported")

(* partition_stale *)
PartitionStale(out) ==
    ~(out.partition # None /\ out.partition.manifest.canonical = out.canonical)

(* Mutant: the partition's canonical input is not compared. *)
PartitionVerifiesLoosely(in, out) ==
    /\ out.partition # None
    /\ out.partition.manifest.policy = in.policy

(* verify_partition_manifest *)
PartitionVerifies(in, out) ==
    /\ out.partition # None
    /\ out.partition.manifest.policy = in.policy
    /\ out.partition.manifest.canonical = out.canonical

(* load_language_model: the fingerprint is of the current vocabulary. *)
ModelLoads(in, out) ==
    /\ InputsValid(in)
    /\ out.model # None
    /\ out.model.decisions = in.decisions

(* assemble_pack_artifacts *)
Assembles(in, out, k) ==
    /\ InputsValid(in)
    /\ k \in Plain \/ ModelLoads(in, out)

Assembled(in, out, k) ==
    [decisions |-> in.decisions, model |-> IF k \in Plain THEN None ELSE out.model]

(* validate_all_pack_manifests *)
PackManifestsValid(in, out) ==
    \A k \in Pack : /\ out.packs[k] # None
                    /\ \/ k \in Plain
                       \/ ModelLoads(in, out) /\ out.packs[k].model = out.model

-----------------------------------------------------------------------------

(***************************************************************************)
(* The checks of verify_production_state.  The local import and partition  *)
(* are an untracked cache: they are compared with what the model records   *)
(* only when they exist and hold the model's corpus.                       *)
(***************************************************************************)
LocalImportAgrees(in, out) ==
    \/ out.canonical = None
    \/ /\ CanonicalVerifies(in, out)
       /\ \/ out.canonical.kuwiki = "skipped"
          \/ /\ out.canonical = out.model.canonical
             /\ \/ out.partition = None
                \/ out.partition.manifest = out.model.manifest

ModelCurrent(in, out) ==
    /\ ModelLoads(in, out)
    /\ out.model.registry = in.registry
    /\ out.model.config = in.config
    /\ LocalImportAgrees(in, out)

PackCurrent(in, out, k) ==
    /\ Assembles(in, out, k)
    /\ out.packs[k] = None \/ out.packs[k] = Assembled(in, out, k)

LocalPipelineConsistent(in, out) ==
    \/ out.partition = None
    \/ /\ CanonicalVerifies(in, out)
       /\ out.partition.manifest.canonical = out.canonical

VerifyOk(in, out) ==
    /\ InputsValid(in)
    /\ ModelCurrent(in, out)
    /\ \A k \in Pack : PackCurrent(in, out, k)
    /\ (\A k \in Pack : out.packs[k] # None) => PackManifestsValid(in, out)
    /\ LocalPipelineConsistent(in, out)

=============================================================================
