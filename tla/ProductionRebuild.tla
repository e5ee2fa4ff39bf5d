-------------------------- MODULE ProductionRebuild --------------------------
(***************************************************************************)
(* The commands that regenerate the derived outputs of ProductionState, as *)
(* processes: rebuild-production, which runs the whole chain, and the      *)
(* single commands import-all-corpora, partition-corpora,                  *)
(* build-language-model and build-pack.  Several may run at a time: only   *)
(* the import and the pack build take a lock file, the partition and the   *)
(* model take none.  A build reads its inputs in one step or several and   *)
(* installs its result in a later one; between any two steps another       *)
(* command may run and somebody may edit an input.  A command may fail or  *)
(* be killed anywhere; stopped in the swap of a directory it leaves the    *)
(* old one, the new one or none (PackBuild models that swap call by call). *)
(***************************************************************************)
EXTENDS ProductionState

CONSTANTS
    Proc,          \* command processes
    PackOrder,     \* PACK_IDS
    MaxCommands,   \* bound: commands started
    MaxEdits,      \* bound: edits of the inputs
    MaxStops       \* bound: commands that fail or are killed

ASSUME OrderAssumption ==
    /\ PackOrder \in Seq(Pack)
    /\ PackOrder # <<>>
    /\ \A k \in Pack : \E i \in DOMAIN PackOrder : PackOrder[i] = k
ASSUME BoundsAssumption == {MaxCommands, MaxEdits, MaxStops} \subseteq Nat

VARIABLES
    inputs,    \* the authoritative inputs
    outputs,   \* the derived outputs
    locks,     \* who holds imported-canonical.lock and pack-builds.lock
    cmd,       \* the command a process runs
    step,      \* its next step
    todo,      \* the packs it still has to build
    work,      \* what it has read, or built and not installed yet
    report,    \* what its last command returned
    tally,     \* commands started, edits made and commands stopped
    alone,     \* history: rebuilds that nothing has disturbed
    settled,   \* history: a rebuild succeeded and nothing has disturbed it
    races      \* history: the inputs swapped between two reads of one build

vars == <<inputs, outputs, locks, cmd, step, todo, work, report, tally,
          alone, settled, races>>

Lock == {"import", "pack"}
Free == "free"
Stale == "stale"

Commands == {"none", "rebuild", "import", "partition", "model", "pack"}

Steps == {"idle", "import", "importing", "partition", "hashing", "splitting", "swapping",
          "model", "counting", "publishing", "pack", "packing",
          "validate", "verify"}

(* A model whose hashes and documents have not been read yet. *)
Reading == [registry : Registry, canonical : Canonical, manifest : PartitionManifest,
            pruned : Config, counts : Counts]

(* The import whose files are going to be split, and the manifest to be.    *)
Listing == [listed : Canonical, manifest : PartitionManifest]

Work == Canonical \cup Listing \cup Partition \cup Model \cup Reading
        \cup PackContents \cup {None}

(* What a rebuild over these inputs publishes as the committed model. *)
Committed(in) ==
    LET canonical == [registry |-> in.registry, kuwiki |-> "imported"]
    IN  [registry |-> in.registry, canonical |-> canonical,
         manifest |-> [canonical |-> canonical, policy |-> in.policy],
         config |-> in.config, decisions |-> in.decisions, counts |-> Production,
         pruned |-> in.config, docs |-> canonical]

(* A checkout: the model is committed; the corpora may have been imported,   *)
(* with the dump or without; the rest is not there.                          *)
Init ==
    /\ inputs \in {in \in Inputs : InputsValid(in)}
    /\ \E canonical \in {None, Staged(inputs)} :
          outputs = [canonical |-> canonical, partition |-> None,
                     model |-> Committed(inputs), packs |-> [k \in Pack |-> None]]
    /\ locks = [l \in Lock |-> Free]
    /\ cmd = [p \in Proc |-> "none"]
    /\ step = [p \in Proc |-> "idle"]
    /\ todo = [p \in Proc |-> <<>>]
    /\ work = [p \in Proc |-> None]
    /\ report = [p \in Proc |-> "none"]
    /\ tally = [commands |-> 0, edits |-> 0, stops |-> 0]
    /\ alone = {}
    /\ settled = FALSE
    /\ races = {}

-----------------------------------------------------------------------------
(* Parts of steps. *)

Rebuilding(p) == cmd[p] = "rebuild"
Others(p) == {q \in Proc \ {p} : step[q] # "idle"}
AnyAt(s) == \E q \in Proc : step[q] = s

Counted(what) == tally' = [tally EXCEPT ![what] = @ + 1]

(* p goes on with step s, knowing w and with these packs to build. *)
Proceed(p, s, w, packs) ==
    /\ step' = [step EXCEPT ![p] = s]
    /\ work' = [work EXCEPT ![p] = w]
    /\ todo' = [todo EXCEPT ![p] = packs]
    /\ UNCHANGED <<cmd, report>>

GoOn(p, s, w) == Proceed(p, s, w, todo[p])

(* p's command returns r. *)
Return(p, r) ==
    /\ step' = [step EXCEPT ![p] = "idle"]
    /\ work' = [work EXCEPT ![p] = None]
    /\ report' = [report EXCEPT ![p] = r]
    /\ cmd' = [cmd EXCEPT ![p] = "none"]
    /\ todo' = [todo EXCEPT ![p] = <<>>]

(* A rebuild goes on with step s, a single command has done its work. *)
Done(p, s) == IF Rebuilding(p) THEN GoOn(p, s, None) ELSE Return(p, "ok")

(* The directory a step swaps; a pack's is that of the pack at the head of todo. *)
Target == [importing |-> "canonical", swapping |-> "partition", publishing |-> "model"]
Swaps == DOMAIN Target \cup {"packing"}

(* The outputs when p's swap leaves v at its target. *)
With(p, v) ==
    IF step[p] = "packing" THEN [outputs EXCEPT !.packs[Head(todo[p])] = v]
                           ELSE [outputs EXCEPT ![Target[step[p]]] = v]

(* Swapping this target now comes between two reads of another build. *)
Racing(p) ==
    (IF step[p] = "importing" /\ (AnyAt("hashing") \/ AnyAt("splitting"))
       THEN {"import"} ELSE {})
    \cup (IF step[p] = "swapping" /\ AnyAt("counting") THEN {"partition"} ELSE {})

(* The swap of a staged directory into place. *)
Swap(p) ==
    /\ outputs' = With(p, work[p])
    /\ races' = races \cup Racing(p)
    /\ UNCHANGED <<inputs, tally, alone, settled>>

(* A step that only reads. *)
Reads == UNCHANGED <<inputs, outputs, tally, alone, settled, races>>

-----------------------------------------------------------------------------
(* Starting a command. *)

Start(p, c, s, packs) ==
    /\ step[p] = "idle"
    /\ tally.commands < MaxCommands
    /\ Counted("commands")
    /\ cmd' = [cmd EXCEPT ![p] = c]
    /\ step' = [step EXCEPT ![p] = s]
    /\ todo' = [todo EXCEPT ![p] = packs]
    /\ work' = [work EXCEPT ![p] = None]
    /\ UNCHANGED <<outputs, locks, races>>

(***************************************************************************)
(* rebuild_production: the authoritative inputs are verified first; the    *)
(* dump must be there, unless the caller lets the command download it.     *)
(***************************************************************************)
Rebuild(p) ==
    /\ InputsValid(inputs)
    /\ \E acquire \in BOOLEAN :
          /\ inputs.dump = "present" \/ acquire
          /\ inputs' = [inputs EXCEPT !.dump = "present"]
    /\ Start(p, "rebuild", "import", PackOrder)
    /\ report' = [report EXCEPT ![p] = "running"]
    /\ alone' = IF Others(p) = {} /\ \A l \in Lock : locks[l] = Free THEN {p} ELSE {}
    /\ UNCHANGED settled

(* ... or it returns an error and has changed nothing. *)
Refuse(p) ==
    /\ ~InputsValid(inputs) \/ inputs.dump = "absent"
    /\ Start(p, "none", "idle", <<>>)
    /\ report' = [report EXCEPT ![p] = "refused"]
    /\ alone' = {}
    /\ UNCHANGED <<inputs, settled>>

(* import-all-corpora, partition-corpora, build-language-model, build-pack. *)
SingleCommand(p) ==
    /\ \/ Start(p, "import", "import", <<>>)
       \/ Start(p, "partition", "partition", <<>>)
       \/ Start(p, "model", "model", <<>>)
       \/ \E k \in Pack : Start(p, "pack", "pack", <<k>>)
    /\ report' = [report EXCEPT ![p] = "running"]
    /\ alone' = {}
    /\ settled' = (settled /\ cmd'[p] \in {"partition", "pack"})
    /\ UNCHANGED inputs

-----------------------------------------------------------------------------
(* The canonical import. *)

(* A rebuild whose import is of this registry and holds the dump keeps it. *)
KeepImport(p) ==
    /\ step[p] = "import" /\ Rebuilding(p)
    /\ ~NeedsImport(inputs, outputs)
    /\ GoOn(p, "partition", None)
    /\ Reads /\ UNCHANGED locks

(* import_all_corpora: take the lock, read the registry, stage the documents. *)
Import(p) ==
    /\ step[p] = "import"
    /\ Rebuilding(p) => NeedsImport(inputs, outputs)
    /\ \/ /\ locks["import"] = Free
          /\ locks' = [locks EXCEPT !["import"] = p]
          /\ GoOn(p, "importing", Staged(inputs))
       \/ /\ locks["import"] # Free
          /\ Return(p, "error") /\ UNCHANGED locks
    /\ Reads

InstallImport(p) ==
    /\ step[p] = "importing"
    /\ Swap(p)
    /\ locks' = [locks EXCEPT !["import"] = Free]
    /\ Done(p, "partition")

-----------------------------------------------------------------------------
(* The partition. *)

(* A rebuild keeps a partition that was made from the import on disk. *)
KeepPartition(p) ==
    /\ step[p] = "partition" /\ Rebuilding(p)
    /\ outputs.canonical # None /\ ~PartitionStale(outputs)
    /\ GoOn(p, "model", None)
    /\ Reads /\ UNCHANGED locks

(* partition_corpora: verify the import and keep what its manifest lists. *)
ReadImport(p) ==
    /\ step[p] = "partition"
    /\ Rebuilding(p) => outputs.canonical = None \/ PartitionStale(outputs)
    /\ \/ /\ CanonicalVerifies(inputs, outputs)
          /\ GoOn(p, "hashing", outputs.canonical)
       \/ /\ ~CanonicalVerifies(inputs, outputs)
          /\ Return(p, "error")
    /\ Reads /\ UNCHANGED locks

(* ... read the manifest again, for its hash, which is not compared with the *)
(* one that was verified ...                                                 *)
HashImport(p) ==
    /\ step[p] = "hashing"
    /\ \/ /\ outputs.canonical # None
          /\ GoOn(p, "splitting",
                  [listed |-> work[p],
                   manifest |-> [canonical |-> outputs.canonical, policy |-> inputs.policy]])
       \/ /\ outputs.canonical = None
          /\ Return(p, "error")
    /\ Reads /\ UNCHANGED locks

(* ... and open the document files that the verified manifest lists. *)
Split(p) ==
    /\ step[p] = "splitting"
    /\ LET listed == work[p].listed
           now == outputs.canonical
           readable == now # None /\ (listed.kuwiki = "imported" => now.kuwiki = "imported")
       IN  \/ /\ readable
              /\ GoOn(p, "swapping", [manifest |-> work[p].manifest,
                                      docs |-> [now EXCEPT !.kuwiki = listed.kuwiki]])
           \/ /\ ~readable
              /\ Return(p, "error")
    /\ Reads /\ UNCHANGED locks

InstallPartition(p) ==
    /\ step[p] = "swapping"
    /\ Swap(p)
    /\ Done(p, "model")
    /\ UNCHANGED locks

-----------------------------------------------------------------------------
(* The language model. *)

(***************************************************************************)
(* build_language_model: registry, import and partition are checked        *)
(* against each other and hashed, and the pruning configuration is loaded. *)
(* A rebuild builds with the production counts, the single command with    *)
(* those it is given.                                                      *)
(***************************************************************************)
ReadProvenance(p) ==
    /\ step[p] = "model"
    /\ LET consistent == /\ CanonicalVerifies(inputs, outputs)
                         /\ outputs.canonical.kuwiki = "imported"
                         /\ PartitionVerifies(inputs, outputs)
       IN  \/ /\ consistent
              /\ \E c \in IF Rebuilding(p) THEN {Production} ELSE Counts :
                    GoOn(p, "counting",
                         [registry |-> inputs.registry, canonical |-> outputs.canonical,
                          manifest |-> outputs.partition.manifest,
                          pruned |-> inputs.config, counts |-> c])
           \/ /\ ~consistent
              /\ Return(p, "error")
    /\ Reads /\ UNCHANGED locks

(***************************************************************************)
(* ... then the configuration is hashed, the TRAIN documents are opened    *)
(* and counted, and the vocabulary is resolved from the review decisions.  *)
(* Documents of another partition than the one that was checked are        *)
(* noticed when their number differs or none is of the dump.               *)
(***************************************************************************)
Count(p) ==
    /\ step[p] = "counting"
    /\ LET now == outputs.partition
           countable == /\ InputsValid(inputs)
                        /\ now # None
                        /\ now.docs.kuwiki = "imported"
           r == work[p]
           replaced == countable /\ now.manifest # r.manifest
       IN  \/ /\ countable
              /\ GoOn(p, "publishing",
                      [registry |-> r.registry, canonical |-> r.canonical,
                       manifest |-> r.manifest, config |-> inputs.config,
                       decisions |-> inputs.decisions, counts |-> r.counts,
                       pruned |-> r.pruned, docs |-> now.docs])
           \/ /\ ~countable \/ replaced
              /\ Return(p, "error")
    /\ Reads /\ UNCHANGED locks

(* write_language_model *)
PublishModel(p) ==
    /\ step[p] = "publishing"
    /\ Swap(p)
    /\ Done(p, "pack")
    /\ UNCHANGED locks

-----------------------------------------------------------------------------
(* The packs. *)

(* build_pack: take the lock and assemble the pack in memory. *)
AssemblePack(p) ==
    /\ step[p] = "pack"
    /\ LET k == Head(todo[p])
           possible == locks["pack"] = Free /\ Assembles(inputs, outputs, k)
       IN  \/ /\ possible
              /\ locks' = [locks EXCEPT !["pack"] = p]
              /\ GoOn(p, "packing", Assembled(inputs, outputs, k))
           \/ /\ ~possible
              /\ Return(p, "error") /\ UNCHANGED locks
    /\ Reads

InstallPack(p) ==
    /\ step[p] = "packing"
    /\ Swap(p)
    /\ locks' = [locks EXCEPT !["pack"] = Free]
    /\ LET rest == Tail(todo[p])
       IN  CASE rest # <<>> -> Proceed(p, "pack", None, rest)
             [] rest = <<>> /\ Rebuilding(p) -> Proceed(p, "validate", None, rest)
             [] OTHER -> Return(p, "ok")

-----------------------------------------------------------------------------
(* The end of a rebuild. *)

(* validate_all_pack_manifests *)
Validate(p) ==
    /\ step[p] = "validate"
    /\ IF PackManifestsValid(inputs, outputs)
       THEN GoOn(p, "verify", None) ELSE Return(p, "error")
    /\ Reads /\ UNCHANGED locks

(* verify_production_state, and every regenerated artifact must be there. *)
Verify(p) ==
    /\ step[p] = "verify"
    /\ LET ok == VerifyOk(inputs, outputs) /\ \A k \in Pack : outputs.packs[k] # None
       IN  /\ Return(p, IF ok THEN "ok" ELSE "error")
           /\ settled' = (settled \/ (ok /\ p \in alone))
    /\ UNCHANGED <<inputs, outputs, locks, tally, alone, races>>

-----------------------------------------------------------------------------
(* Failures and people. *)

(***************************************************************************)
(* A command fails or is killed.  In a swap, the target is the old one,    *)
(* the new one or none.  The lock file of a killed command stays.          *)
(***************************************************************************)
Stop(p) ==
    /\ step[p] # "idle"
    /\ tally.stops < MaxStops
    /\ Counted("stops")
    /\ \/ UNCHANGED <<outputs, races>>
       \/ /\ step[p] \in Swaps
          /\ \E v \in {None, work[p]} : outputs' = With(p, v)
          /\ races' = races \cup Racing(p)
    /\ \E left \in {Free, Stale} :
          locks' = [l \in Lock |-> IF locks[l] = p THEN left ELSE locks[l]]
    /\ Return(p, "stopped")
    /\ alone' = {}
    /\ settled' = FALSE
    /\ UNCHANGED inputs

(* Somebody removes the lock file of a command that was killed. *)
ClearLock ==
    /\ \E l \in Lock : locks[l] = Stale /\ locks' = [locks EXCEPT ![l] = Free]
    /\ UNCHANGED <<inputs, outputs, cmd, step, todo, work, report, tally,
                   alone, settled, races>>

Edited(in) ==
    /\ tally.edits < MaxEdits
    /\ in # inputs
    /\ Counted("edits")
    /\ inputs' = in
    /\ alone' = {}
    /\ UNCHANGED <<outputs, locks, cmd, step, todo, work, report>>

(* An input is edited, or the working tree moved to another commit. *)
EditInput ==
    /\ \/ \E r \in Registry : Edited([inputs EXCEPT !.registry = r])
       \/ \E c \in Config : Edited([inputs EXCEPT !.config = c])
       \/ \E d \in Decisions \cup {Invalid} : Edited([inputs EXCEPT !.decisions = d])
    /\ settled' = FALSE
    /\ races' = races \cup IF inputs'.config # inputs.config /\ AnyAt("counting")
                           THEN {"config"} ELSE {}

(* The dump is acquired by itself, or removed to free its space. *)
MoveDump ==
    /\ \E d \in {"present", "absent"} : Edited([inputs EXCEPT !.dump = d])
    /\ UNCHANGED <<settled, races>>

(* A data-builder with other rules is installed while none is running. *)
Upgrade ==
    /\ \A p \in Proc : step[p] = "idle"
    /\ \E v \in Policy : Edited([inputs EXCEPT !.policy = v])
    /\ settled' = FALSE
    /\ UNCHANGED races

CommandStep(p) ==
    \/ Rebuild(p) \/ Refuse(p) \/ SingleCommand(p)
    \/ KeepImport(p) \/ Import(p) \/ InstallImport(p)
    \/ KeepPartition(p) \/ ReadImport(p) \/ HashImport(p) \/ Split(p) \/ InstallPartition(p)
    \/ ReadProvenance(p) \/ Count(p) \/ PublishModel(p)
    \/ AssemblePack(p) \/ InstallPack(p)
    \/ Validate(p) \/ Verify(p)
    \/ Stop(p)

Next == (\E p \in Proc : CommandStep(p)) \/ ClearLock \/ EditInput \/ MoveDump \/ Upgrade

Spec == Init /\ [][Next]_vars

-----------------------------------------------------------------------------
(* Properties. *)

(* The variables keep their types (the report structs and manifests of       *)
(* production.rs, partition.rs and language_model.rs).                       *)
TypeOK ==
    /\ inputs \in Inputs
    /\ outputs \in Outputs
    /\ locks \in [Lock -> Proc \cup {Free, Stale}]
    /\ cmd \in [Proc -> Commands]
    /\ step \in [Proc -> Steps]
    /\ todo \in [Proc -> Seq(Pack)]
    /\ work \in [Proc -> Work]
    /\ report \in [Proc -> {"none", "running", "refused", "stopped", "error", "ok"}]
    /\ tally \in [commands : 0..MaxCommands, edits : 0..MaxEdits, stops : 0..MaxStops]
    /\ alone \in SUBSET Proc
    /\ settled \in BOOLEAN
    /\ races \in SUBSET {"import", "partition", "config"}

(***************************************************************************)
(* When verify-production-state passes, the committed model was really     *)
(* computed from the documents the current registry pins and pruned with   *)
(* the current configuration, although it only compares what manifests     *)
(* say: whatever commands ran, in whatever order, and whichever of them    *)
(* failed.  The only way round is an input that changes between two reads  *)
(* of one build (production.rs:448-540, language_model.rs:565-640).        *)
(***************************************************************************)
VerifiedIsDerived ==
    VerifyOk(inputs, outputs) =>
        LET m == outputs.model
        IN  /\ m.docs = [registry |-> inputs.registry, kuwiki |-> "imported"]
                  \/ races \cap {"import", "partition"} # {}
            /\ m.pruned = inputs.config \/ "config" \in races

(***************************************************************************)
(* Whatever state the derived outputs are in, a rebuild whose inputs are   *)
(* valid and that nothing disturbs succeeds: "Derived outputs (the         *)
(* committed language model, the built packs, the local corpus pipeline)   *)
(* are what a rebuild regenerates" (production.rs:16-17).                  *)
(***************************************************************************)
RebuildRepairs == \A p \in alone : report[p] # "error"

(***************************************************************************)
(* The two cases in which it does not.  The partition on disk was made by  *)
(* other rules than those of the installed data-builder; or an import was  *)
(* installed while it was split, between the verification of the old one   *)
(* and the hash of the new one, so that its documents are not those its    *)
(* manifest names.  Either way the rebuild keeps the partition, by its     *)
(* hash, and the model build refuses it, every time.  What the rebuild     *)
(* takes as stale and what the builds refuse agree on everything else      *)
(* (production.rs:847-889): no edit of the inputs, no command that failed  *)
(* or was killed and no earlier single command leaves outputs that an      *)
(* undisturbed rebuild cannot repair.                                      *)
(***************************************************************************)
OnlyUpgradeOrRaceBreaksRebuild ==
    \A p \in alone :
        report[p] = "error" =>
            /\ outputs.partition # None
            /\ LET made == outputs.partition.manifest
               IN  \/ made.policy # inputs.policy
                   \/ /\ "import" \in races
                      /\ outputs.partition.docs.kuwiki # made.canonical.kuwiki

(***************************************************************************)
(* "Repeated runs are byte-identical" (production.rs:23): once a rebuild   *)
(* has succeeded, further rebuilds, partitions and pack builds, several at *)
(* a time too, leave every derived output as it is.  Not so when a         *)
(* partition was split while its import was swapped: a rebuild keeps it,   *)
(* because its manifest is that of the import, and the next split differs. *)
(***************************************************************************)
RebuildChangesNothing ==
    [][settled /\ settled' /\ "import" \notin races => outputs' = outputs]_vars
=============================================================================
