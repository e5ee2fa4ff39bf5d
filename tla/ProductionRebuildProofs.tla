----------------------- MODULE ProductionRebuildProofs -----------------------
(***************************************************************************)
(* Proofs about ProductionRebuild, for any number of processes, commands,  *)
(* edits and failures and for any versions of the inputs.                  *)
(***************************************************************************)
EXTENDS ProductionRebuild, TLAPS

(***************************************************************************)
(* What a process knows at each of its steps.                              *)
(***************************************************************************)
Fits(s, w) ==
    /\ s = "importing" => w \in Canonical
    /\ s = "hashing" => w \in Canonical
    /\ s = "splitting" => w \in Listing
    /\ s = "swapping" => w \in Partition
    /\ s = "counting" => w \in Reading
    /\ s = "publishing" => w \in Model
    /\ s = "packing" => w \in PackContents

(* Whether a process that runs c and is at step s has packs left to build. *)
Building(c, s) ==
    \/ s \in {"pack", "packing"}
    \/ c = "rebuild" /\ s \notin {"idle", "validate", "verify"}

ProcessesTyped ==
    /\ cmd \in [Proc -> Commands]
    /\ step \in [Proc -> Steps]
    /\ todo \in [Proc -> Seq(Pack)]
    /\ work \in [Proc -> Work]
    /\ report \in [Proc -> {"none", "running", "refused", "stopped", "error", "ok"}]
    /\ \A p \in Proc : Fits(step[p], work[p])
    /\ \A p \in Proc : Building(cmd[p], step[p]) => todo[p] # <<>>

OutputsTyped ==
    /\ outputs \in Outputs
    /\ locks \in [Lock -> Proc \cup {Free, Stale}]
    /\ races \in SUBSET {"import", "partition", "config"}

InputsTyped ==
    /\ inputs \in Inputs
    /\ tally \in [commands : 0..MaxCommands, edits : 0..MaxEdits, stops : 0..MaxStops]
    /\ alone \in SUBSET Proc
    /\ settled \in BOOLEAN

Typed == ProcessesTyped /\ OutputsTyped /\ InputsTyped

LEMMA InitTyped == Init => Typed
<1> SUFFICES ASSUME Init PROVE Typed
  OBVIOUS
<1>1. inputs \in Inputs /\ outputs \in Outputs
  BY ValuesAssumption DEF Init, Inputs, Outputs, InputsValid, Committed, Canonical, Staged,
     PartitionManifest, Model
<1>2. OutputsTyped
  BY <1>1 DEF Init, OutputsTyped, Lock
<1>3. InputsTyped
  <2>1. 0 \in 0..MaxCommands /\ 0 \in 0..MaxEdits /\ 0 \in 0..MaxStops
    BY BoundsAssumption
  <2> QED
    BY <1>1, <2>1 DEF Init, InputsTyped
<1>4. todo \in [Proc -> Seq(Pack)]
  BY DEF Init
<1>5. ProcessesTyped
  BY <1>4 DEF Init, ProcessesTyped, Commands, Steps, Work, Fits, Building
<1> QED
  BY <1>2, <1>3, <1>5 DEF Typed

(* A command goes on with a step it has what it needs for. *)
LEMMA ProceedTyped ==
    ASSUME ProcessesTyped, NEW p \in Proc, NEW s \in Steps, NEW w \in Work,
           NEW packs \in Seq(Pack), Fits(s, w),
           Building(cmd[p], s) => packs # <<>>,
           Proceed(p, s, w, packs)
    PROVE  ProcessesTyped'
<1>1. /\ step' \in [Proc -> Steps] /\ work' \in [Proc -> Work]
      /\ todo' \in [Proc -> Seq(Pack)] /\ cmd' = cmd /\ report' = report
  BY DEF ProcessesTyped, Proceed
<1>2. \A q \in Proc : Fits(step'[q], work'[q])
  BY DEF ProcessesTyped, Proceed
<1>3. \A q \in Proc : Building(cmd'[q], step'[q]) => todo'[q] # <<>>
  BY DEF ProcessesTyped, Proceed
<1> QED
  BY <1>1, <1>2, <1>3 DEF ProcessesTyped

(* A command returns. *)
LEMMA ReturnTyped ==
    ASSUME ProcessesTyped, NEW p \in Proc,
           NEW r \in {"none", "running", "refused", "stopped", "error", "ok"},
           Return(p, r)
    PROVE  ProcessesTyped'
<1>0. None \in Work /\ <<>> \in Seq(Pack) /\ "idle" \in Steps /\ "none" \in Commands
  BY DEF Work, Steps, Commands
<1>1. /\ step' \in [Proc -> Steps] /\ work' \in [Proc -> Work] /\ cmd' \in [Proc -> Commands]
      /\ todo' \in [Proc -> Seq(Pack)]
  BY <1>0 DEF ProcessesTyped, Return
<1>2. report' \in [Proc -> {"none", "running", "refused", "stopped", "error", "ok"}]
  BY DEF ProcessesTyped, Return
<1>3. \A q \in Proc : Fits(step'[q], work'[q])
  BY DEF ProcessesTyped, Return, Fits
<1>4. \A q \in Proc : Building(cmd'[q], step'[q]) => todo'[q] # <<>>
  BY DEF ProcessesTyped, Return, Building
<1> QED
  BY <1>1, <1>2, <1>3, <1>4 DEF ProcessesTyped

(* A command starts. *)
LEMMA StartTyped ==
    ASSUME ProcessesTyped, NEW p \in Proc, NEW c \in Commands, NEW s \in Steps,
           NEW packs \in Seq(Pack), Fits(s, None),
           Building(c, s) => packs # <<>>,
           NEW r \in {"none", "running", "refused", "stopped", "error", "ok"},
           Start(p, c, s, packs), report' = [report EXCEPT ![p] = r]
    PROVE  ProcessesTyped'
<1>0. None \in Work
  BY DEF Work
<1>1. /\ step' \in [Proc -> Steps] /\ work' \in [Proc -> Work] /\ cmd' \in [Proc -> Commands]
      /\ todo' \in [Proc -> Seq(Pack)]
  BY <1>0 DEF ProcessesTyped, Start
<1>2. report' \in [Proc -> {"none", "running", "refused", "stopped", "error", "ok"}]
  BY DEF ProcessesTyped
<1>3. \A q \in Proc : Fits(step'[q], work'[q])
  BY DEF ProcessesTyped, Start
<1>4. \A q \in Proc : Building(cmd'[q], step'[q]) => todo'[q] # <<>>
  BY DEF ProcessesTyped, Start
<1> QED
  BY <1>1, <1>2, <1>3, <1>4 DEF ProcessesTyped

(* A command that did its work: a rebuild goes on with one of these steps. *)
LEMMA DoneTyped ==
    ASSUME ProcessesTyped, NEW p \in Proc, NEW s \in {"partition", "model", "pack"},
           Building(cmd[p], step[p]) \/ ~Rebuilding(p),
           Done(p, s)
    PROVE  ProcessesTyped'
<1>1. CASE Rebuilding(p)
  <2>1. Proceed(p, s, None, todo[p])
    BY <1>1 DEF Done, GoOn
  <2>2. s \in Steps /\ None \in Work /\ Fits(s, None) /\ todo[p] \in Seq(Pack)
    BY DEF Steps, Work, Fits, ProcessesTyped
  <2>3. todo[p] # <<>>
    BY <1>1 DEF ProcessesTyped
  <2> QED
    BY <2>1, <2>2, <2>3, ProceedTyped
<1>2. CASE ~Rebuilding(p)
  BY <1>2, ReturnTyped DEF Done
<1> QED
  BY <1>1, <1>2

(* A swap leaves an output of the target's type. *)
LEMMA WithTyped ==
    ASSUME Typed, NEW p \in Proc, step[p] \in Swaps,
           NEW v, v = None \/ v = work[p]
    PROVE  With(p, v) \in Outputs
<1> USE DEF Typed, OutputsTyped, ProcessesTyped
<1>0. Fits(step[p], work[p])
  OBVIOUS
<1>1. CASE step[p] = "packing"
  <2>1. v \in PackContents \cup {None}
    BY <1>0, <1>1 DEF Fits
  <2>2. todo[p] \in Seq(Pack) /\ todo[p] # <<>>
    BY <1>1 DEF Building
  <2>3. Head(todo[p]) \in Pack
    BY <2>2
  <2>4. With(p, v) = [outputs EXCEPT !.packs[Head(todo[p])] = v]
    BY <1>1 DEF With
  <2> QED
    BY <2>1, <2>3, <2>4 DEF Outputs
<1>2. CASE step[p] = "importing"
  <2>1. Target[step[p]] = "canonical"
    BY <1>2 DEF Target
  <2>2. With(p, v) = [outputs EXCEPT !.canonical = v]
    BY <1>2, <2>1 DEF With
  <2> QED
    BY <1>0, <1>2, <2>2 DEF Fits, Outputs
<1>3. CASE step[p] = "swapping"
  <2>1. Target[step[p]] = "partition"
    BY <1>3 DEF Target
  <2>2. With(p, v) = [outputs EXCEPT !.partition = v]
    BY <1>3, <2>1 DEF With
  <2> QED
    BY <1>0, <1>3, <2>2 DEF Fits, Outputs
<1>4. CASE step[p] = "publishing"
  <2>1. Target[step[p]] = "model"
    BY <1>4 DEF Target
  <2>2. With(p, v) = [outputs EXCEPT !.model = v]
    BY <1>4, <2>1 DEF With
  <2> QED
    BY <1>0, <1>4, <2>2 DEF Fits, Outputs
<1> QED
  BY <1>1, <1>2, <1>3, <1>4 DEF Swaps, Target

LEMMA SwapTyped ==
    ASSUME Typed, NEW p \in Proc, step[p] \in Swaps, Swap(p),
           locks' \in [Lock -> Proc \cup {Free, Stale}]
    PROVE  OutputsTyped' /\ InputsTyped'
<1>1. outputs' \in Outputs
  BY WithTyped DEF Swap
<1>2. races' \in SUBSET {"import", "partition", "config"}
  BY DEF Swap, Racing, Typed, OutputsTyped
<1>3. InputsTyped'
  BY DEF Swap, Typed, InputsTyped
<1> QED
  BY <1>1, <1>2, <1>3 DEF OutputsTyped

LEMMA ReadsTyped ==
    ASSUME Typed, Reads, locks' \in [Lock -> Proc \cup {Free, Stale}]
    PROVE  OutputsTyped' /\ InputsTyped'
BY DEF Reads, Typed, OutputsTyped, InputsTyped

(* Steps, contents of manifests and rests of lists are of their types. *)
LEMMA StagedTyped == ASSUME inputs \in Inputs PROVE Staged(inputs) \in Canonical
BY DEF Inputs, Staged, Canonical

LEMMA WorkHolds ==
    ASSUME NEW s, NEW w, Fits(s, w), s \in Swaps \cup {"hashing", "splitting", "counting"}
    PROVE  w \in Work
BY DEF Fits, Work, Swaps, Target

(* Starting a command counts it. *)
LEMMA StartCounts ==
    ASSUME Typed, NEW p \in Proc, NEW c, NEW s, NEW packs, Start(p, c, s, packs)
    PROVE  /\ OutputsTyped'
           /\ tally' \in [commands : 0..MaxCommands, edits : 0..MaxEdits, stops : 0..MaxStops]
<1>1. OutputsTyped'
  BY DEF Start, Typed, OutputsTyped
<1>2. tally.commands \in Nat /\ tally.commands < MaxCommands /\ MaxCommands \in Nat
  BY BoundsAssumption DEF Start, Typed, InputsTyped
<1>3. tally.commands + 1 \in 0..MaxCommands
  BY <1>2
<1> QED
  BY <1>1, <1>3 DEF Start, Counted, Typed, InputsTyped

LEMMA EditedTyped ==
    ASSUME Typed, NEW in \in Inputs, Edited(in)
    PROVE  /\ ProcessesTyped'
           /\ inputs' \in Inputs
           /\ tally' \in [commands : 0..MaxCommands, edits : 0..MaxEdits, stops : 0..MaxStops]
           /\ alone' \in SUBSET Proc
           /\ outputs' \in Outputs
           /\ locks' \in [Lock -> Proc \cup {Free, Stale}]
<1>1. ProcessesTyped'
  BY DEF Edited, Typed, ProcessesTyped
<1>2. tally.edits \in Nat /\ tally.edits < MaxEdits /\ MaxEdits \in Nat
  BY BoundsAssumption DEF Edited, Typed, InputsTyped
<1>3. tally.edits + 1 \in 0..MaxEdits
  BY <1>2
<1>4. tally' \in [commands : 0..MaxCommands, edits : 0..MaxEdits, stops : 0..MaxStops]
  BY <1>3 DEF Edited, Counted, Typed, InputsTyped
<1> QED
  BY <1>1, <1>4 DEF Edited, Typed, InputsTyped, OutputsTyped

(* What the reading and building steps make is of the type of their step. *)
LEMMA HashImportFits ==
    ASSUME Typed, outputs.canonical # None, NEW listed \in Canonical
    PROVE  Fits("splitting",
                [listed |-> listed,
                 manifest |-> [canonical |-> outputs.canonical, policy |-> inputs.policy]])
BY DEF Typed, InputsTyped, OutputsTyped, Outputs, Inputs, Fits, PartitionManifest, Listing

LEMMA ProvenanceFits ==
    ASSUME Typed, CanonicalVerifies(inputs, outputs), PartitionVerifies(inputs, outputs),
           NEW c \in Counts
    PROVE  Fits("counting", [registry |-> inputs.registry, canonical |-> outputs.canonical,
                             manifest |-> outputs.partition.manifest,
                             pruned |-> inputs.config, counts |-> c])
<1>1. outputs.canonical \in Canonical /\ outputs.partition \in Partition
  BY DEF Typed, OutputsTyped, CanonicalVerifies, PartitionVerifies, Outputs
<1>2. outputs.partition.manifest \in PartitionManifest
  BY <1>1 DEF Partition
<1>3. inputs.registry \in Registry /\ inputs.config \in Config
  BY DEF Typed, InputsTyped, Inputs
<1> QED
  BY <1>1, <1>2, <1>3 DEF Fits, Reading

LEMMA AssembledFits ==
    ASSUME Typed, NEW k \in Pack, Assembles(inputs, outputs, k)
    PROVE  Fits("packing", Assembled(inputs, outputs, k))
<1>1. inputs.decisions \in Decisions
  BY DEF Assembles, InputsValid, Typed, InputsTyped, Inputs
<1>2. outputs.model \in Model \cup {None}
  BY DEF Typed, OutputsTyped, Outputs
<1> QED
  BY <1>1, <1>2 DEF Fits, Assembled, PackContents

LEMMA StepTyped ==
    ASSUME Typed, NEW p \in Proc, CommandStep(p)
    PROVE  Typed'
<1> USE DEF Typed
<1>t. /\ todo[p] \in Seq(Pack)
      /\ Fits(step[p], work[p])
      /\ Building(cmd[p], step[p]) => todo[p] # <<>>
  BY DEF ProcessesTyped
<1>l. /\ locks \in [Lock -> Proc \cup {Free, Stale}]
      /\ \A l \in Lock : [locks EXCEPT ![l] = p] \in [Lock -> Proc \cup {Free, Stale}]
      /\ \A l \in Lock : [locks EXCEPT ![l] = Free] \in [Lock -> Proc \cup {Free, Stale}]
      /\ "import" \in Lock /\ "pack" \in Lock
  BY DEF OutputsTyped, Lock
<1>n. /\ \A s \in Steps \ (Swaps \cup {"hashing", "splitting", "counting"}) : Fits(s, None)
      /\ None \in Work
  BY DEF Fits, Work, Swaps, Target
<1>1. CASE Rebuild(p)
  <2>1. Start(p, "rebuild", "import", PackOrder) /\ report' = [report EXCEPT ![p] = "running"]
    BY <1>1 DEF Rebuild
  <2>2. ProcessesTyped'
    <3>1. PackOrder \in Seq(Pack) /\ PackOrder # <<>>
      BY OrderAssumption
    <3>2. "rebuild" \in Commands /\ "import" \in Steps /\ Fits("import", None)
      BY DEF Commands, Steps, Fits
    <3> QED
      BY <2>1, <3>1, <3>2, StartTyped
  <2>3. OutputsTyped' /\ tally' \in [commands : 0..MaxCommands, edits : 0..MaxEdits,
                                     stops : 0..MaxStops]
    BY <2>1, StartCounts
  <2>4. inputs' \in Inputs /\ alone' \in SUBSET Proc /\ settled' \in BOOLEAN
    BY <1>1 DEF Rebuild, InputsTyped, Inputs
  <2> QED
    BY <2>2, <2>3, <2>4 DEF InputsTyped
<1>2. CASE Refuse(p)
  <2>1. Start(p, "none", "idle", <<>>) /\ report' = [report EXCEPT ![p] = "refused"]
    BY <1>2 DEF Refuse
  <2>2. ProcessesTyped'
    <3>2. "none" \in Commands /\ "idle" \in Steps /\ Fits("idle", None) /\ <<>> \in Seq(Pack)
          /\ ~Building("none", "idle")
      BY DEF Commands, Steps, Fits, Building
    <3> QED
      BY <2>1, <3>2, StartTyped
  <2>3. OutputsTyped' /\ tally' \in [commands : 0..MaxCommands, edits : 0..MaxEdits,
                                     stops : 0..MaxStops]
    BY <2>1, StartCounts
  <2>4. inputs' \in Inputs /\ alone' \in SUBSET Proc /\ settled' \in BOOLEAN
    BY <1>2 DEF Refuse, InputsTyped
  <2> QED
    BY <2>2, <2>3, <2>4 DEF InputsTyped
<1>3. CASE SingleCommand(p)
  <2>1. PICK c \in {"import", "partition", "model", "pack"}, packs \in Seq(Pack) :
            /\ Start(p, c, c, packs)
            /\ c = "pack" => packs # <<>>
    <3>1. \A k \in Pack : <<k>> \in Seq(Pack) /\ <<k>> # <<>>
      OBVIOUS
    <3>2. <<>> \in Seq(Pack)
      OBVIOUS
    <3>3. CASE \E k \in Pack : Start(p, "pack", "pack", <<k>>)
      BY <3>1, <3>3
    <3>4. CASE Start(p, "import", "import", <<>>) \/ Start(p, "partition", "partition", <<>>)
               \/ Start(p, "model", "model", <<>>)
      BY <3>2, <3>4
    <3> QED
      BY <1>3, <3>3, <3>4 DEF SingleCommand
  <2>2. report' = [report EXCEPT ![p] = "running"]
    BY <1>3 DEF SingleCommand
  <2>3. ProcessesTyped'
    <3>1. c \in Commands /\ c \in Steps /\ Fits(c, None)
      BY DEF Commands, Steps, Fits
    <3>2. Building(c, c) => packs # <<>>
      BY <2>1 DEF Building
    <3> QED
      BY <2>1, <2>2, <3>1, <3>2, StartTyped
  <2>4. OutputsTyped' /\ tally' \in [commands : 0..MaxCommands, edits : 0..MaxEdits,
                                     stops : 0..MaxStops]
    BY <2>1, StartCounts
  <2>5. settled' \in BOOLEAN
    BY <1>3 DEF SingleCommand
  <2>6. inputs' \in Inputs /\ alone' \in SUBSET Proc
    BY <1>3 DEF SingleCommand, InputsTyped
  <2> QED
    BY <2>3, <2>4, <2>5, <2>6 DEF InputsTyped
<1>4. CASE KeepImport(p)
  <2>1. Proceed(p, "partition", None, todo[p])
    BY <1>4 DEF KeepImport, GoOn
  <2>2. todo[p] # <<>>
    BY <1>4, <1>t DEF KeepImport, Rebuilding, Building
  <2>3. ProcessesTyped'
    BY <2>1, <2>2, <1>t, <1>n, ProceedTyped DEF Steps, Swaps, Target
  <2> QED
    BY <1>4, <1>l, <2>3, ReadsTyped DEF KeepImport
<1>5. CASE Import(p)
  <2>1. CASE GoOn(p, "importing", Staged(inputs)) /\ locks' = [locks EXCEPT !["import"] = p]
    <3>1. Building(cmd[p], "importing") => todo[p] # <<>>
      BY <1>5, <1>t DEF Import, Building
    <3>2. Fits("importing", Staged(inputs))
      BY StagedTyped DEF InputsTyped, Fits
    <3>3. ProcessesTyped'
      BY <2>1, <3>1, <3>2, <1>t, WorkHolds, ProceedTyped DEF GoOn, Steps, Swaps, Target
    <3> QED
      BY <1>5, <1>l, <2>1, <3>3, ReadsTyped DEF Import
  <2>2. CASE Return(p, "error") /\ UNCHANGED locks
    <3>1. ProcessesTyped'
      BY <2>2, ReturnTyped
    <3> QED
      BY <1>5, <1>l, <2>2, <3>1, ReadsTyped DEF Import
  <2> QED
    BY <1>5, <2>1, <2>2 DEF Import
<1>6. CASE InstallImport(p)
  <2>1. ProcessesTyped'
    BY <1>6, DoneTyped DEF InstallImport, Building, Rebuilding
  <2> QED
    BY <1>6, <1>l, <2>1, SwapTyped DEF InstallImport, Swaps, Target
<1>7. CASE KeepPartition(p)
  <2>1. Proceed(p, "model", None, todo[p])
    BY <1>7 DEF KeepPartition, GoOn
  <2>2. todo[p] # <<>>
    BY <1>7, <1>t DEF KeepPartition, Rebuilding, Building
  <2>3. ProcessesTyped'
    BY <2>1, <2>2, <1>t, <1>n, ProceedTyped DEF Steps, Swaps, Target
  <2> QED
    BY <1>7, <1>l, <2>3, ReadsTyped DEF KeepPartition
<1>8. CASE ReadImport(p)
  <2>1. CASE CanonicalVerifies(inputs, outputs) /\ GoOn(p, "hashing", outputs.canonical)
    <3>1. Building(cmd[p], "hashing") => todo[p] # <<>>
      BY <1>8, <1>t DEF ReadImport, Building
    <3>2. Fits("hashing", outputs.canonical)
      BY <2>1 DEF CanonicalVerifies, OutputsTyped, Outputs, Fits
    <3>4. outputs.canonical \in Work
      BY <3>2, WorkHolds
    <3>3. ProcessesTyped'
      BY <2>1, <3>1, <3>2, <3>4, <1>t, ProceedTyped DEF GoOn, Steps
    <3> QED
      BY <1>8, <1>l, <3>3, ReadsTyped DEF ReadImport
  <2>2. CASE Return(p, "error")
    <3>1. ProcessesTyped'
      BY <2>2, ReturnTyped
    <3> QED
      BY <1>8, <1>l, <3>1, ReadsTyped DEF ReadImport
  <2> QED
    BY <1>8, <2>1, <2>2 DEF ReadImport
<1>19. CASE HashImport(p)
  <2> DEFINE w == [listed |-> work[p],
                   manifest |-> [canonical |-> outputs.canonical, policy |-> inputs.policy]]
  <2>1. CASE outputs.canonical # None /\ GoOn(p, "splitting", w)
    <3>1. Building(cmd[p], "splitting") => todo[p] # <<>>
      BY <1>19, <1>t DEF HashImport, Building
    <3>2. Fits("splitting", w)
      BY <1>19, <1>t, <2>1, HashImportFits DEF HashImport, Fits
    <3>4. w \in Work
      BY <3>2, WorkHolds
    <3> HIDE DEF w
    <3>3. ProcessesTyped'
      BY <2>1, <3>1, <3>2, <3>4, <1>t, ProceedTyped DEF GoOn, Steps
    <3> QED
      BY <1>19, <1>l, <3>3, ReadsTyped DEF HashImport
  <2>2. CASE Return(p, "error")
    <3>1. ProcessesTyped'
      BY <2>2, ReturnTyped
    <3> QED
      BY <1>19, <1>l, <3>1, ReadsTyped DEF HashImport
  <2> QED
    BY <1>19, <2>1, <2>2 DEF HashImport
<1>9. CASE Split(p)
  <2> DEFINE w == [manifest |-> work[p].manifest,
                   docs |-> [outputs.canonical EXCEPT !.kuwiki = work[p].listed.kuwiki]]
  <2>1. CASE outputs.canonical # None /\ GoOn(p, "swapping", w)
    <3>1. Building(cmd[p], "swapping") => todo[p] # <<>>
      BY <1>9, <1>t DEF Split, Building
    <3>2. Fits("swapping", w)
      <4>1. work[p].manifest \in PartitionManifest /\ work[p].listed \in Canonical
        BY <1>9, <1>t DEF Split, Fits, Listing
      <4>2. outputs.canonical \in Canonical
        BY <2>1 DEF OutputsTyped, Outputs
      <4>3. w.docs \in Canonical
        BY <4>1, <4>2 DEF Canonical
      <4> QED
        BY <4>1, <4>3 DEF Fits, Partition
    <3>4. w \in Work
      BY <3>2, WorkHolds DEF Swaps, Target
    <3> HIDE DEF w
    <3>3. ProcessesTyped'
      BY <2>1, <3>1, <3>2, <3>4, <1>t, ProceedTyped DEF GoOn, Steps
    <3> QED
      BY <1>9, <1>l, <3>3, ReadsTyped DEF Split
  <2>2. CASE Return(p, "error")
    <3>1. ProcessesTyped'
      BY <2>2, ReturnTyped
    <3> QED
      BY <1>9, <1>l, <3>1, ReadsTyped DEF Split
  <2> QED
    BY <1>9, <2>1, <2>2 DEF Split
<1>10. CASE InstallPartition(p)
  <2>1. ProcessesTyped'
    BY <1>10, DoneTyped DEF InstallPartition, Building, Rebuilding
  <2> QED
    BY <1>10, <1>l, <2>1, SwapTyped DEF InstallPartition, Swaps, Target
<1>11. CASE ReadProvenance(p)
  <2>1. CASE Return(p, "error")
    <3>1. ProcessesTyped'
      BY <2>1, ReturnTyped
    <3> QED
      BY <1>11, <1>l, <3>1, ReadsTyped DEF ReadProvenance
  <2>2. CASE ~Return(p, "error")
    <3> DEFINE r(c) == [registry |-> inputs.registry, canonical |-> outputs.canonical,
                        manifest |-> outputs.partition.manifest,
                        pruned |-> inputs.config, counts |-> c]
    <3>1. PICK c \in Counts : GoOn(p, "counting", r(c))
      BY <1>11, <2>2, ValuesAssumption DEF ReadProvenance
    <3>2. Fits("counting", r(c))
      BY <1>11, <2>2, ProvenanceFits DEF ReadProvenance
    <3>3. r(c) \in Work
      BY <3>2, WorkHolds
    <3>4. Building(cmd[p], "counting") => todo[p] # <<>>
      BY <1>11, <1>t DEF ReadProvenance, Building
    <3> HIDE DEF r
    <3>5. ProcessesTyped'
      BY <3>1, <3>2, <3>3, <3>4, <1>t, ProceedTyped DEF GoOn, Steps
    <3> QED
      BY <1>11, <1>l, <3>5, ReadsTyped DEF ReadProvenance
  <2> QED
    BY <2>1, <2>2
<1>12. CASE Count(p)
  <2>1. CASE Return(p, "error")
    <3>1. ProcessesTyped'
      BY <2>1, ReturnTyped
    <3> QED
      BY <1>12, <1>l, <3>1, ReadsTyped DEF Count
  <2>2. CASE ~Return(p, "error")
    <3> DEFINE m == [registry |-> work[p].registry, canonical |-> work[p].canonical,
                     manifest |-> work[p].manifest, config |-> inputs.config,
                     decisions |-> inputs.decisions, counts |-> work[p].counts,
                     pruned |-> work[p].pruned, docs |-> outputs.partition.docs]
    <3>1. GoOn(p, "publishing", m)
      BY <1>12, <2>2 DEF Count
    <3>2. Fits("publishing", m)
      <4>1. work[p] \in Reading
        BY <1>12, <1>t DEF Count, Fits
      <4>2. outputs.partition \in Partition
        BY <1>12, <2>2 DEF Count, OutputsTyped, Outputs
      <4>3. outputs.partition.docs \in Canonical
        BY <4>2 DEF Partition
      <4>4. inputs.config \in Config /\ inputs.decisions \in Decisions
        BY <1>12, <2>2 DEF Count, InputsValid, InputsTyped, Inputs
      <4> QED
        BY <4>1, <4>3, <4>4 DEF Fits, Reading, Model
    <3>3. m \in Work
      BY <3>2, WorkHolds DEF Swaps, Target
    <3>4. Building(cmd[p], "publishing") => todo[p] # <<>>
      BY <1>12, <1>t DEF Count, Building
    <3> HIDE DEF m
    <3>5. ProcessesTyped'
      BY <3>1, <3>2, <3>3, <3>4, <1>t, ProceedTyped DEF GoOn, Steps
    <3> QED
      BY <1>12, <1>l, <3>5, ReadsTyped DEF Count
  <2> QED
    BY <2>1, <2>2
<1>13. CASE PublishModel(p)
  <2>1. ProcessesTyped'
    BY <1>13, DoneTyped DEF PublishModel, Building, Rebuilding
  <2> QED
    BY <1>13, <1>l, <2>1, SwapTyped DEF PublishModel, Swaps, Target
<1>14. CASE AssemblePack(p)
  <2> DEFINE k == Head(todo[p])
             w == Assembled(inputs, outputs, k)
  <2>0. todo[p] # <<>> /\ k \in Pack
    BY <1>14, <1>t DEF AssemblePack, Building
  <2> HIDE DEF k
  <2>1. CASE /\ Assembles(inputs, outputs, k)
             /\ GoOn(p, "packing", w)
             /\ locks' = [locks EXCEPT !["pack"] = p]
    <3>2. Fits("packing", w)
      BY <2>0, <2>1, AssembledFits
    <3>4. w \in Work
      BY <3>2, WorkHolds DEF Swaps, Target
    <3> HIDE DEF w
    <3>3. ProcessesTyped'
      BY <2>0, <2>1, <3>2, <3>4, <1>t, ProceedTyped DEF GoOn, Steps
    <3> QED
      BY <1>14, <1>l, <2>1, <3>3, ReadsTyped DEF AssemblePack
  <2>2. CASE Return(p, "error") /\ UNCHANGED locks
    <3>1. ProcessesTyped'
      BY <2>2, ReturnTyped
    <3> QED
      BY <1>14, <1>l, <2>2, <3>1, ReadsTyped DEF AssemblePack
  <2> QED
    BY <1>14, <2>1, <2>2 DEF AssemblePack, k
<1>15. CASE InstallPack(p)
  <2>0. todo[p] # <<>> /\ Tail(todo[p]) \in Seq(Pack)
    BY <1>15, <1>t DEF InstallPack, Building
  <2>4. ProcessesTyped'
    <3>1. CASE Tail(todo[p]) # <<>> /\ Proceed(p, "pack", None, Tail(todo[p]))
      BY <2>0, <3>1, <1>n, ProceedTyped DEF Steps, Swaps, Target
    <3>2. CASE Proceed(p, "validate", None, Tail(todo[p]))
      <4>1. ~Building(cmd[p], "validate")
        BY DEF Building
      <4> QED
        BY <2>0, <3>2, <4>1, <1>n, ProceedTyped DEF Steps, Swaps, Target
    <3>3. CASE Return(p, "ok")
      BY <3>3, ReturnTyped
    <3> QED
      BY <1>15, <3>1, <3>2, <3>3 DEF InstallPack
  <2> QED
    BY <1>15, <1>l, <2>4, SwapTyped DEF InstallPack, Swaps, Target
<1>16. CASE Validate(p)
  <2>1. CASE Proceed(p, "verify", None, todo[p])
    <3>1. ~Building(cmd[p], "verify")
      BY DEF Building
    <3> QED
      BY <1>16, <1>l, <1>t, <2>1, <3>1, <1>n, ProceedTyped, ReadsTyped
         DEF Validate, Steps, Swaps, Target
  <2>2. CASE Return(p, "error")
    BY <1>16, <1>l, <2>2, ReturnTyped, ReadsTyped DEF Validate
  <2> QED
    BY <1>16, <2>1, <2>2 DEF Validate, GoOn
<1>17. CASE Verify(p)
  <2>1. PICK r \in {"ok", "error"} : Return(p, r)
    BY <1>17 DEF Verify
  <2>2. ProcessesTyped'
    BY <2>1, ReturnTyped
  <2>3. settled' \in BOOLEAN
    BY <1>17 DEF Verify
  <2> QED
    BY <1>17, <2>2, <2>3 DEF Verify, OutputsTyped, InputsTyped
<1>18. CASE Stop(p)
  <2>1. ProcessesTyped'
    BY <1>18, ReturnTyped DEF Stop
  <2>2. outputs' \in Outputs
    <3>1. CASE UNCHANGED outputs
      BY <3>1 DEF OutputsTyped
    <3>2. CASE step[p] \in Swaps /\ \E v \in {None, work[p]} : outputs' = With(p, v)
      BY <3>2, WithTyped
    <3> QED
      BY <1>18, <3>1, <3>2 DEF Stop
  <2>3. races' \in SUBSET {"import", "partition", "config"}
    BY <1>18 DEF Stop, Racing, OutputsTyped
  <2>4. locks' \in [Lock -> Proc \cup {Free, Stale}]
    BY <1>18, <1>l DEF Stop
  <2>5. tally.stops \in Nat /\ tally.stops < MaxStops /\ MaxStops \in Nat
    BY <1>18, BoundsAssumption DEF Stop, InputsTyped
  <2>6. tally.stops + 1 \in 0..MaxStops
    BY <2>5
  <2>7. InputsTyped'
    BY <1>18, <2>6 DEF Stop, Counted, InputsTyped
  <2> QED
    BY <2>1, <2>2, <2>3, <2>4, <2>7 DEF OutputsTyped
<1> QED
  BY <1>1, <1>2, <1>3, <1>4, <1>5, <1>6, <1>7, <1>8, <1>9, <1>10, <1>11, <1>12,
     <1>13, <1>14, <1>15, <1>16, <1>17, <1>18, <1>19 DEF CommandStep

LEMMA NextTyped == Typed /\ [Next]_vars => Typed'
<1> SUFFICES ASSUME Typed, [Next]_vars PROVE Typed'
  OBVIOUS
<1> USE DEF Typed
<1>1. ASSUME NEW p \in Proc, CommandStep(p) PROVE Typed'
  BY <1>1, StepTyped
<1>2. CASE ClearLock
  <2>1. locks' \in [Lock -> Proc \cup {Free, Stale}]
    BY <1>2 DEF ClearLock, OutputsTyped
  <2> QED
    BY <1>2, <2>1 DEF ClearLock, ProcessesTyped, OutputsTyped, InputsTyped
<1>3. CASE EditInput
  <2>1. PICK in \in Inputs : Edited(in)
    BY <1>3 DEF EditInput, Inputs, InputsTyped
  <2>2. races' \in SUBSET {"import", "partition", "config"} /\ settled' \in BOOLEAN
    BY <1>3 DEF EditInput, OutputsTyped
  <2> QED
    BY <2>1, <2>2, EditedTyped DEF OutputsTyped, InputsTyped
<1>4. CASE MoveDump
  <2>1. PICK in \in Inputs : Edited(in)
    BY <1>4 DEF MoveDump, Inputs, InputsTyped
  <2> QED
    BY <1>4, <2>1, EditedTyped DEF MoveDump, OutputsTyped, InputsTyped
<1>5. CASE Upgrade
  <2>1. PICK in \in Inputs : Edited(in)
    BY <1>5 DEF Upgrade, Inputs, InputsTyped
  <2> QED
    BY <1>5, <2>1, EditedTyped DEF Upgrade, OutputsTyped, InputsTyped
<1>6. CASE UNCHANGED vars
  BY <1>6 DEF vars, ProcessesTyped, OutputsTyped, InputsTyped
<1> QED
  BY <1>1, <1>2, <1>3, <1>4, <1>5, <1>6 DEF Next

(***************************************************************************)
(* Every variable keeps its type, whatever commands run at a time, and     *)
(* every process has at each step what that step needs.                    *)
(***************************************************************************)
THEOREM AlwaysTyped == Spec => []Typed
BY InitTyped, NextTyped, PTL DEF Spec

(* TypeOK, as the runs check it. *)
THEOREM TypeCorrect == Spec => []TypeOK
<1>1. Typed => TypeOK
  BY DEF Typed, ProcessesTyped, OutputsTyped, InputsTyped, TypeOK
<1> QED
  BY <1>1, AlwaysTyped, PTL

-----------------------------------------------------------------------------
(* Steps and what they leave alone. *)

(* A step of p leaves what the other processes do and know. *)
Stays(q) ==
    /\ step'[q] = step[q] /\ work'[q] = work[q] /\ todo'[q] = todo[q]
    /\ cmd'[q] = cmd[q] /\ report'[q] = report[q]

LEMMA ProceedStays ==
    ASSUME ProcessesTyped, NEW p \in Proc, NEW s, NEW w, NEW packs, Proceed(p, s, w, packs)
    PROVE  /\ \A q \in Proc \ {p} : Stays(q)
           /\ step'[p] = s /\ work'[p] = w /\ todo'[p] = packs
           /\ cmd'[p] = cmd[p] /\ report'[p] = report[p]
BY DEF ProcessesTyped, Proceed, Stays

LEMMA ReturnStays ==
    ASSUME ProcessesTyped, NEW p \in Proc, NEW r, Return(p, r)
    PROVE  /\ \A q \in Proc \ {p} : Stays(q)
           /\ step'[p] = "idle" /\ work'[p] = None /\ report'[p] = r
BY DEF ProcessesTyped, Return, Stays

LEMMA StartStays ==
    ASSUME ProcessesTyped, NEW p \in Proc, NEW c, NEW s, NEW packs, Start(p, c, s, packs),
           NEW r, report' = [report EXCEPT ![p] = r]
    PROVE  /\ \A q \in Proc \ {p} : Stays(q)
           /\ step'[p] = s /\ work'[p] = None /\ todo'[p] = packs
           /\ cmd'[p] = c /\ report'[p] = r
BY DEF ProcessesTyped, Start, Stays

LEMMA DoneStays ==
    ASSUME ProcessesTyped, NEW p \in Proc, NEW s, Done(p, s)
    PROVE  /\ \A q \in Proc \ {p} : Stays(q)
           /\ step'[p] = IF Rebuilding(p) THEN s ELSE "idle"
           /\ work'[p] = None
           /\ Rebuilding(p) => /\ cmd'[p] = cmd[p] /\ report'[p] = report[p]
                               /\ todo'[p] = todo[p]
           /\ ~Rebuilding(p) => report'[p] = "ok"
<1>1. CASE Rebuilding(p)
  BY <1>1, ProceedStays DEF Done, GoOn
<1>2. CASE ~Rebuilding(p)
  BY <1>2, ReturnStays DEF Done
<1> QED
  BY <1>1, <1>2

LEMMA OthersStay ==
    ASSUME ProcessesTyped, NEW p \in Proc, CommandStep(p)
    PROVE  \A q \in Proc \ {p} : Stays(q)
<1>1. CASE Rebuild(p) \/ Refuse(p) \/ SingleCommand(p)
  BY <1>1, StartStays DEF Rebuild, Refuse, SingleCommand
<1>2. CASE KeepImport(p) \/ Import(p) \/ InstallImport(p)
  BY <1>2, ProceedStays, ReturnStays, DoneStays DEF KeepImport, Import, InstallImport, GoOn
<1>3. CASE KeepPartition(p) \/ ReadImport(p) \/ HashImport(p) \/ Split(p) \/ InstallPartition(p)
  BY <1>3, ProceedStays, ReturnStays, DoneStays
     DEF KeepPartition, ReadImport, HashImport, Split, InstallPartition, GoOn
<1>4. CASE ReadProvenance(p) \/ PublishModel(p)
  BY <1>4, ProceedStays, ReturnStays, DoneStays DEF ReadProvenance, PublishModel, GoOn
<1>5. CASE Count(p)
  BY <1>5, ProceedStays, ReturnStays DEF Count, GoOn
<1>6. CASE AssemblePack(p) \/ InstallPack(p)
  BY <1>6, ProceedStays, ReturnStays DEF AssemblePack, InstallPack, GoOn
<1>7. CASE Validate(p) \/ Verify(p) \/ Stop(p)
  BY <1>7, ProceedStays, ReturnStays DEF Validate, Verify, Stop, GoOn
<1> QED
  BY <1>1, <1>2, <1>3, <1>4, <1>5, <1>6, <1>7 DEF CommandStep

(* What a swap leaves. *)
LEMMA WithParts ==
    ASSUME Typed, NEW p \in Proc, step[p] \in Swaps, NEW v
    PROVE  /\ With(p, v).canonical = IF step[p] = "importing" THEN v ELSE outputs.canonical
           /\ With(p, v).partition = IF step[p] = "swapping" THEN v ELSE outputs.partition
           /\ With(p, v).model = IF step[p] = "publishing" THEN v ELSE outputs.model
           /\ step[p] # "packing" => With(p, v).packs = outputs.packs
           /\ step[p] = "packing" =>
                 With(p, v).packs = [outputs.packs EXCEPT ![Head(todo[p])] = v]
<1> USE DEF Typed, OutputsTyped
<1>1. CASE step[p] = "packing"
  BY <1>1 DEF With, Outputs
<1>2. CASE step[p] = "importing"
  <2>1. Target[step[p]] = "canonical"
    BY <1>2 DEF Target
  <2> QED
    BY <1>2, <2>1 DEF With, Outputs
<1>3. CASE step[p] = "swapping"
  <2>1. Target[step[p]] = "partition"
    BY <1>3 DEF Target
  <2> QED
    BY <1>3, <2>1 DEF With, Outputs
<1>4. CASE step[p] = "publishing"
  <2>1. Target[step[p]] = "model"
    BY <1>4 DEF Target
  <2> QED
    BY <1>4, <2>1 DEF With, Outputs
<1> QED
  BY <1>1, <1>2, <1>3, <1>4 DEF Swaps, Target

-----------------------------------------------------------------------------
(* What a model was computed from: the corpus its registry pins and the      *)
(* configuration its manifest names, up to a race between two reads.         *)
ModelDerived(m, raced) ==
    /\ \/ m.docs = [registry |-> m.registry, kuwiki |-> "imported"]
       \/ raced \cap {"import", "partition"} # {}
    /\ m.pruned = m.config \/ "config" \in raced

(* A partition holds what its manifest says. *)
PartitionDerived(P, raced) == P.docs = P.manifest.canonical \/ "import" \in raced

ReadingDerived(r, in, out, raced) ==
    /\ r.canonical = [registry |-> r.registry, kuwiki |-> "imported"]
    /\ r.manifest.canonical = r.canonical
    /\ r.pruned = in.config \/ "config" \in raced
    /\ \/ out.partition # None /\ out.partition.manifest = r.manifest
       \/ "partition" \in raced

(* What a process knows at step s is derived from what its origin says. *)
WorkDerived(s, w, in, out, raced) ==
    /\ s = "hashing" => out.canonical = w \/ "import" \in raced
    /\ s = "splitting" => \/ out.canonical = w.listed /\ w.manifest.canonical = w.listed
                         \/ "import" \in raced
    /\ s = "swapping" => PartitionDerived(w, raced)
    /\ s = "counting" => ReadingDerived(w, in, out, raced)
    /\ s = "publishing" => ModelDerived(w, raced)

OutputsDerived(out, raced) ==
    /\ out.partition # None => PartitionDerived(out.partition, raced)
    /\ out.model # None => ModelDerived(out.model, raced)

Derived ==
    /\ OutputsDerived(outputs, races)
    /\ \A p \in Proc : WorkDerived(step[p], work[p], inputs, outputs, races)

LEMMA InitDerived == Init => Derived
<1> SUFFICES ASSUME Init PROVE Derived
  OBVIOUS
<1>1. outputs.partition = None
  BY DEF Init
<1>2. ModelDerived(outputs.model, races)
  BY DEF Init, ModelDerived, Committed
<1>3. ASSUME NEW p \in Proc PROVE WorkDerived(step[p], work[p], inputs, outputs, races)
  BY DEF Init, WorkDerived
<1> QED
  BY <1>1, <1>2, <1>3 DEF Derived, OutputsDerived

(* What is derived stays so when more races are seen. *)
LEMMA RacesGrow ==
    ASSUME NEW before, NEW after, before \subseteq after
    PROVE  /\ \A m : ModelDerived(m, before) => ModelDerived(m, after)
           /\ \A P : PartitionDerived(P, before) => PartitionDerived(P, after)
BY DEF ModelDerived, PartitionDerived

(* A swap keeps what is derived, of the outputs and of the other processes. *)
LEMMA SwapDerived ==
    ASSUME Typed, Derived, NEW p \in Proc, step[p] \in Swaps,
           NEW v, v = None \/ v = work[p],
           outputs' = With(p, v), races' = races \cup Racing(p), inputs' = inputs
    PROVE  /\ OutputsDerived(outputs', races')
           /\ \A q \in Proc : WorkDerived(step[q], work[q], inputs', outputs', races')
<1>1. races \subseteq races'
  OBVIOUS
<1>2. WorkDerived(step[p], work[p], inputs, outputs, races) /\ OutputsDerived(outputs, races)
  BY DEF Derived
<1>3. OutputsDerived(outputs', races')
  <2>1. outputs'.partition # None => PartitionDerived(outputs'.partition, races')
    BY <1>1, <1>2, RacesGrow, WithParts DEF WorkDerived, OutputsDerived
  <2>2. outputs'.model # None => ModelDerived(outputs'.model, races')
    BY <1>1, <1>2, RacesGrow, WithParts DEF WorkDerived, OutputsDerived
  <2> QED
    BY <2>1, <2>2 DEF OutputsDerived
<1>4. ASSUME NEW q \in Proc PROVE WorkDerived(step[q], work[q], inputs', outputs', races')
  <2>1. WorkDerived(step[q], work[q], inputs, outputs, races)
    BY DEF Derived
  <2>2. step[q] = "splitting" =>
            \/ outputs'.canonical = work[q].listed /\ work[q].manifest.canonical = work[q].listed
            \/ "import" \in races'
    BY <1>1, <2>1, WithParts DEF WorkDerived, Racing, AnyAt
  <2>5. step[q] = "hashing" => outputs'.canonical = work[q] \/ "import" \in races'
    BY <1>1, <2>1, WithParts DEF WorkDerived, Racing, AnyAt
  <2>3. step[q] = "counting" => ReadingDerived(work[q], inputs', outputs', races')
    BY <1>1, <2>1, WithParts DEF WorkDerived, ReadingDerived, Racing, AnyAt
  <2>4. /\ step[q] = "swapping" => PartitionDerived(work[q], races')
        /\ step[q] = "publishing" => ModelDerived(work[q], races')
    BY <1>1, <2>1, RacesGrow DEF WorkDerived
  <2> QED
    BY <2>2, <2>3, <2>4, <2>5 DEF WorkDerived
<1> QED
  BY <1>3, <1>4

(* A step of p keeps Derived when it keeps the rest and p's own work is.     *)
LEMMA DerivedByParts ==
    ASSUME Derived, NEW p \in Proc, \A q \in Proc \ {p} : Stays(q),
           OutputsDerived(outputs', races'),
           \A q \in Proc : WorkDerived(step[q], work[q], inputs', outputs', races'),
           WorkDerived(step'[p], work'[p], inputs', outputs', races')
    PROVE  Derived'
BY DEF Derived, Stays

LEMMA StepDerived ==
    ASSUME Typed, Derived, NEW p \in Proc, CommandStep(p)
    PROVE  Derived'
<1>t. ProcessesTyped /\ Fits(step[p], work[p])
  BY DEF Typed, ProcessesTyped
<1>o. \A q \in Proc \ {p} : Stays(q)
  BY <1>t, OthersStay
<1>p. /\ OutputsDerived(outputs, races)
      /\ \A q \in Proc : WorkDerived(step[q], work[q], inputs, outputs, races)
  BY DEF Derived
<1>n. ASSUME NEW s, s \notin {"hashing", "splitting", "swapping", "counting", "publishing"}, NEW w
      PROVE  WorkDerived(s, w, inputs', outputs', races')
  BY <1>n DEF WorkDerived
<1>r. ASSUME inputs'.config = inputs.config, UNCHANGED <<outputs, races>>,
             WorkDerived(step'[p], work'[p], inputs', outputs', races')
      PROVE  Derived'
  <2>1. \A q \in Proc : WorkDerived(step[q], work[q], inputs', outputs', races')
    BY <1>p, <1>r DEF WorkDerived, ReadingDerived
  <2> QED
    BY <1>o, <1>p, <1>r, <2>1, DerivedByParts
<1>e. ASSUME inputs'.config = inputs.config, UNCHANGED <<outputs, races>>,
             NEW r, Return(p, r)
      PROVE  Derived'
  BY <1>t, <1>n, <1>r, <1>e, ReturnStays
<1>s. ASSUME step[p] \in Swaps, Swap(p),
             step'[p] \notin {"hashing", "splitting", "swapping", "counting", "publishing"}
      PROVE  Derived'
  BY <1>n, <1>o, <1>s, SwapDerived, DerivedByParts DEF Swap
<1>1. CASE Rebuild(p) \/ Refuse(p) \/ SingleCommand(p)
  <2>1. step'[p] \notin {"hashing", "splitting", "swapping", "counting", "publishing"}
    <3>1. ASSUME NEW c, NEW packs, NEW s, Start(p, c, s, packs)
          PROVE  step'[p] = s
      BY <1>t, <3>1 DEF Start, ProcessesTyped
    <3> QED
      BY <1>1, <3>1 DEF Rebuild, Refuse, SingleCommand
  <2>2. inputs'.config = inputs.config
    BY <1>1 DEF Rebuild, Refuse, SingleCommand, Typed, InputsTyped, Inputs
  <2> QED
    BY <1>1, <1>n, <1>r, <2>1, <2>2 DEF Rebuild, Refuse, SingleCommand, Start
<1>2. CASE KeepImport(p) \/ KeepPartition(p)
  <2>1. step'[p] \in {"partition", "model"}
    BY <1>t, <1>2, ProceedStays DEF KeepImport, KeepPartition, GoOn
  <2> QED
    BY <1>2, <1>n, <1>r, <2>1 DEF KeepImport, KeepPartition, Reads
<1>3. CASE Import(p)
  <2>1. step'[p] \in {"importing", "idle"}
    BY <1>t, <1>3, ProceedStays, ReturnStays DEF Import, GoOn
  <2> QED
    BY <1>3, <1>n, <1>r, <2>1 DEF Import, Reads
<1>4. CASE InstallImport(p) \/ InstallPartition(p) \/ PublishModel(p)
  <2>1. step'[p] \in {"partition", "model", "pack", "idle"}
    BY <1>t, <1>4, DoneStays DEF InstallImport, InstallPartition, PublishModel
  <2>2. step[p] \in Swaps /\ Swap(p)
    BY <1>4 DEF InstallImport, InstallPartition, PublishModel, Swaps, Target
  <2> QED
    BY <1>s, <2>1, <2>2
<1>5. CASE ReadImport(p)
  <2>1. CASE GoOn(p, "hashing", outputs.canonical)
    <3>1. step'[p] = "hashing" /\ work'[p] = outputs.canonical
      BY <1>t, <2>1, ProceedStays DEF GoOn
    <3>2. WorkDerived(step'[p], work'[p], inputs', outputs', races')
      BY <1>5, <3>1 DEF ReadImport, Reads, WorkDerived
    <3> QED
      BY <1>5, <1>r, <3>2 DEF ReadImport, Reads
  <2>2. CASE Return(p, "error")
    BY <1>5, <1>e, <2>2 DEF ReadImport, Reads
  <2> QED
    BY <1>5, <2>1, <2>2 DEF ReadImport
<1>14. CASE HashImport(p)
  <2> DEFINE w == [listed |-> work[p],
                   manifest |-> [canonical |-> outputs.canonical, policy |-> inputs.policy]]
  <2>1. CASE GoOn(p, "splitting", w)
    <3>1. step'[p] = "splitting" /\ work'[p] = w
      BY <1>t, <2>1, ProceedStays DEF GoOn
    <3>2. outputs.canonical = work[p] \/ "import" \in races
      BY <1>14, <1>p DEF HashImport, WorkDerived
    <3>3. WorkDerived(step'[p], work'[p], inputs', outputs', races')
      BY <1>14, <3>1, <3>2 DEF HashImport, Reads, WorkDerived
    <3> QED
      BY <1>14, <1>r, <3>3 DEF HashImport, Reads
  <2>2. CASE Return(p, "error")
    BY <1>14, <1>e, <2>2 DEF HashImport, Reads
  <2> QED
    BY <1>14, <2>1, <2>2 DEF HashImport
<1>6. CASE Split(p)
  <2> DEFINE P == [manifest |-> work[p].manifest,
                   docs |-> [outputs.canonical EXCEPT !.kuwiki = work[p].listed.kuwiki]]
  <2>1. CASE outputs.canonical # None /\ GoOn(p, "swapping", P)
    <3>1. step'[p] = "swapping" /\ work'[p] = P
      BY <1>t, <2>1, ProceedStays DEF GoOn
    <3>2. \/ outputs.canonical = work[p].listed /\ work[p].manifest.canonical = work[p].listed
          \/ "import" \in races
      BY <1>6, <1>p DEF Split, WorkDerived
    <3>3. outputs.canonical \in Canonical
      BY <1>6, <1>t, <2>1 DEF Split, Typed, OutputsTyped, Outputs
    <3>4. PartitionDerived(P, races)
      BY <3>2, <3>3 DEF PartitionDerived, Canonical
    <3>5. WorkDerived(step'[p], work'[p], inputs', outputs', races')
      BY <1>6, <3>1, <3>4 DEF Split, Reads, WorkDerived
    <3> QED
      BY <1>6, <1>r, <3>5 DEF Split, Reads
  <2>2. CASE Return(p, "error")
    BY <1>6, <1>e, <2>2 DEF Split, Reads
  <2> QED
    BY <1>6, <2>1, <2>2 DEF Split
<1>7. CASE ReadProvenance(p)
  <2>1. CASE Return(p, "error")
    BY <1>7, <1>e, <2>1 DEF ReadProvenance, Reads
  <2>2. CASE ~Return(p, "error")
    <3> DEFINE r(c) == [registry |-> inputs.registry, canonical |-> outputs.canonical,
                        manifest |-> outputs.partition.manifest,
                        pruned |-> inputs.config, counts |-> c]
    <3>1. PICK c : GoOn(p, "counting", r(c))
      BY <1>7, <2>2 DEF ReadProvenance
    <3>2. step'[p] = "counting" /\ work'[p] = r(c)
      BY <1>t, <3>1, ProceedStays DEF GoOn
    <3>3. outputs.canonical = [registry |-> inputs.registry, kuwiki |-> "imported"]
      BY <1>7, <2>2 DEF ReadProvenance, CanonicalVerifies, Typed, OutputsTyped, Outputs,
                        Canonical
    <3>4. outputs.partition # None /\ outputs.partition.manifest.canonical = outputs.canonical
      BY <1>7, <2>2 DEF ReadProvenance, PartitionVerifies
    <3>5. ReadingDerived(r(c), inputs, outputs, races)
      BY <3>3, <3>4 DEF ReadingDerived
    <3>6. WorkDerived(step'[p], work'[p], inputs', outputs', races')
      BY <1>7, <3>2, <3>5 DEF ReadProvenance, Reads, WorkDerived
    <3> QED
      BY <1>7, <1>r, <3>6 DEF ReadProvenance, Reads
  <2> QED
    BY <2>1, <2>2
<1>8. CASE Count(p)
  <2>1. CASE Return(p, "error")
    BY <1>8, <1>e, <2>1 DEF Count, Reads
  <2>2. CASE ~Return(p, "error")
    <3> DEFINE m == [registry |-> work[p].registry, canonical |-> work[p].canonical,
                     manifest |-> work[p].manifest, config |-> inputs.config,
                     decisions |-> inputs.decisions, counts |-> work[p].counts,
                     pruned |-> work[p].pruned, docs |-> outputs.partition.docs]
    <3>1. GoOn(p, "publishing", m)
      BY <1>8, <2>2 DEF Count
    <3>2. step'[p] = "publishing" /\ work'[p] = m
      BY <1>t, <3>1, ProceedStays DEF GoOn
    <3>3. ReadingDerived(work[p], inputs, outputs, races)
      BY <1>8, <1>p DEF Count, WorkDerived
    <3>4. outputs.partition # None => PartitionDerived(outputs.partition, races)
      BY <1>p DEF OutputsDerived
    <3>5. ModelDerived(m, races)
      BY <3>3, <3>4 DEF ModelDerived, ReadingDerived, PartitionDerived
    <3>6. WorkDerived(step'[p], work'[p], inputs', outputs', races')
      BY <1>8, <3>2, <3>5 DEF Count, Reads, WorkDerived
    <3> QED
      BY <1>8, <1>r, <3>6 DEF Count, Reads
  <2> QED
    BY <2>1, <2>2
<1>9. CASE AssemblePack(p)
  <2>1. step'[p] \in {"packing", "idle"}
    BY <1>t, <1>9, ProceedStays, ReturnStays DEF AssemblePack, GoOn
  <2> QED
    BY <1>9, <1>n, <1>r, <2>1 DEF AssemblePack, Reads
<1>10. CASE InstallPack(p)
  <2>1. step'[p] \in {"pack", "validate", "idle"}
    BY <1>t, <1>10, ProceedStays, ReturnStays DEF InstallPack
  <2> QED
    BY <1>10, <1>s, <2>1 DEF InstallPack, Swaps
<1>11. CASE Validate(p)
  <2>1. step'[p] \in {"verify", "idle"}
    BY <1>t, <1>11, ProceedStays, ReturnStays DEF Validate, GoOn
  <2> QED
    BY <1>11, <1>n, <1>r, <2>1 DEF Validate, Reads
<1>12. CASE Verify(p)
  BY <1>12, <1>e DEF Verify
<1>13. CASE Stop(p)
  <2>0. step'[p] = "idle"
    BY <1>t, <1>13, ReturnStays DEF Stop
  <2>1. CASE UNCHANGED <<outputs, races>>
    BY <1>13, <1>e, <2>1 DEF Stop
  <2>2. CASE step[p] \in Swaps /\ \E v \in {None, work[p]} : outputs' = With(p, v)
             /\ races' = races \cup Racing(p)
    BY <1>13, <1>n, <1>o, <2>0, <2>2, SwapDerived, DerivedByParts DEF Stop
  <2> QED
    BY <1>13, <2>1, <2>2 DEF Stop
<1> QED
  BY <1>1, <1>2, <1>3, <1>4, <1>5, <1>6, <1>7, <1>8, <1>9, <1>10, <1>11, <1>12, <1>13,
     <1>14 DEF CommandStep

LEMMA NextDerived == Typed /\ Derived /\ [Next]_vars => Derived'
<1> SUFFICES ASSUME Typed, Derived, [Next]_vars PROVE Derived'
  OBVIOUS
<1>1. ASSUME NEW p \in Proc, CommandStep(p) PROVE Derived'
  BY <1>1, StepDerived
<1>2. CASE ClearLock \/ UNCHANGED vars
  BY <1>2 DEF ClearLock, vars, Derived
<1>3. ASSUME UNCHANGED <<step, work, outputs>>, races \subseteq races',
             \/ inputs'.config = inputs.config
             \/ AnyAt("counting") => "config" \in races'
      PROVE  Derived'
  <2>1. ASSUME NEW p \in Proc PROVE WorkDerived(step[p], work[p], inputs', outputs', races')
    BY <1>3, RacesGrow DEF Derived, WorkDerived, ReadingDerived, AnyAt
  <2> QED
    BY <1>3, <2>1, RacesGrow DEF Derived, OutputsDerived
<1>4. CASE EditInput
  BY <1>3, <1>4 DEF EditInput, Edited
<1>5. CASE MoveDump \/ Upgrade
  BY <1>3, <1>5 DEF MoveDump, Upgrade, Edited, Typed, InputsTyped, Inputs
<1> QED
  BY <1>1, <1>2, <1>4, <1>5 DEF Next

THEOREM AlwaysDerived == Spec => []Derived
BY InitTyped, NextTyped, InitDerived, NextDerived, PTL DEF Spec

(***************************************************************************)
(* What verify-production-state accepts was computed from the documents    *)
(* and the configuration that are there now, except after a race between   *)
(* two reads of one build: it compares manifests, and these say the truth. *)
(***************************************************************************)
THEOREM VerifiedIsReal == Spec => []VerifiedIsDerived
<1>1. Derived => VerifiedIsDerived
  BY DEF Derived, OutputsDerived, ModelDerived, VerifiedIsDerived, VerifyOk, ModelCurrent,
         ModelLoads
<1> QED
  BY <1>1, AlwaysDerived, PTL

-----------------------------------------------------------------------------
(* What a rebuild of these inputs makes.                                     *)
FreshImport(in) == [registry |-> in.registry, kuwiki |-> "imported"]

FreshManifest(in) == [canonical |-> FreshImport(in), policy |-> in.policy]

FreshReading(in) ==
    [registry |-> in.registry, canonical |-> FreshImport(in), manifest |-> FreshManifest(in),
     pruned |-> in.config, counts |-> Production]

FreshModel(in, out) ==
    [registry |-> in.registry, canonical |-> FreshImport(in), manifest |-> FreshManifest(in),
     config |-> in.config, decisions |-> in.decisions, counts |-> Production,
     pruned |-> in.config, docs |-> out.partition.docs]

PartitionFresh(in, out) ==
    out.partition # None /\ out.partition.manifest = FreshManifest(in)

PackFresh(in, out, k) == out.packs[k] = Assembled(in, out, k)

(* What a process at step s knows is what it would read now.                 *)
WorkFresh(s, w, packs, in, out) ==
    /\ s = "hashing" => w = FreshImport(in)
    /\ s = "splitting" => w.manifest = FreshManifest(in) /\ w.listed = FreshImport(in)
    /\ s = "swapping" => w.manifest = FreshManifest(in)
    /\ s = "counting" => w = FreshReading(in)
    /\ s = "publishing" => w = FreshModel(in, out)
    /\ s = "packing" => w = Assembled(in, out, Head(packs))

Listed(k, packs) == \E i \in DOMAIN packs : packs[i] = k

(* How far a rebuild that nothing disturbs has come when it is at step s.    *)
Reached(s, w, packs, in, out) ==
    /\ InputsValid(in) /\ in.dump = "present"
    /\ WorkFresh(s, w, packs, in, out)
    /\ s = "importing" => w = FreshImport(in)
    /\ s \notin {"import", "importing"} => out.canonical = FreshImport(in)
    /\ s = "model" =>
          out.partition # None /\ out.partition.manifest.canonical = FreshImport(in)
    /\ s \in {"counting", "publishing", "pack", "packing", "validate", "verify"}
          => PartitionFresh(in, out)
    /\ s \in {"pack", "packing", "validate", "verify"} => out.model = FreshModel(in, out)
    /\ \A k \in Pack :
          \/ s \notin {"validate", "verify"} /\ Listed(k, packs)
          \/ s \in {"pack", "packing", "validate", "verify"} /\ PackFresh(in, out, k)

(* A partition that a rebuild keeps and a model build refuses.               *)
Refused(in, out, raced) ==
    /\ out.partition # None
    /\ \/ out.partition.manifest.policy # in.policy
       \/ /\ "import" \in raced
          /\ out.partition.docs.kuwiki # out.partition.manifest.canonical.kuwiki

(* A rebuild that nothing disturbs: no other command runs, it holds the lock *)
(* files of its own steps only, and it fails only over such a partition.      *)
Undisturbed(p) ==
    /\ \A q \in Proc \ {p} : step[q] = "idle"
    /\ report[p] = "error" => Refused(inputs, outputs, races)
    /\ step[p] # "idle" =>
          /\ cmd[p] = "rebuild" /\ report[p] = "running"
          /\ step[p] # "importing" => locks["import"] = Free
          /\ step[p] # "packing" => locks["pack"] = Free
          /\ Reached(step[p], work[p], todo[p], inputs, outputs)

AloneRebuilds == \A p \in alone : alone = {p} /\ Undisturbed(p)

LEMMA ListedTail ==
    ASSUME NEW packs \in Seq(Pack), packs # <<>>, NEW k, Listed(k, packs)
    PROVE  k = Head(packs) \/ Listed(k, Tail(packs))
<1>1. PICK i \in DOMAIN packs : packs[i] = k
  BY DEF Listed
<1>2. CASE i = 1
  BY <1>1, <1>2
<1>3. CASE i # 1
  <2>1. i - 1 \in DOMAIN Tail(packs) /\ Tail(packs)[i - 1] = packs[i]
    BY <1>1, <1>3
  <2> QED
    BY <1>1, <2>1 DEF Listed
<1> QED
  BY <1>2, <1>3

(* What a rebuild makes exists.                                              *)
LEMMA FreshExists ==
    ASSUME Typed, InputsValid(inputs)
    PROVE  /\ FreshImport(inputs) \in Canonical /\ FreshImport(inputs) # None
           /\ FreshManifest(inputs) \in PartitionManifest
           /\ outputs.partition # None =>
                 /\ FreshModel(inputs, outputs) \in Model
                 /\ FreshModel(inputs, outputs) # None
           /\ \A k \in Pack : outputs.model # None \/ k \in Plain =>
                 Assembled(inputs, outputs, k) # None
<1>1. /\ inputs.registry \in Registry /\ inputs.config \in Config
      /\ inputs.decisions \in Decisions /\ inputs.policy \in Policy
  BY DEF Typed, InputsTyped, Inputs, InputsValid
<1>2. FreshImport(inputs) \in Canonical
  BY <1>1 DEF FreshImport, Canonical
<1>3. FreshManifest(inputs) \in PartitionManifest
  BY <1>1, <1>2 DEF FreshManifest, PartitionManifest
<1>4. outputs.partition # None => FreshModel(inputs, outputs) \in Model
  <2>1. outputs.partition # None => outputs.partition.docs \in Canonical
    BY DEF Typed, OutputsTyped, Outputs, Partition
  <2> QED
    BY <1>1, <1>2, <1>3, <2>1, ValuesAssumption DEF FreshModel, Model
<1>5. ASSUME NEW k \in Pack PROVE Assembled(inputs, outputs, k) \in PackContents
  BY <1>1 DEF Assembled, PackContents, Typed, OutputsTyped, Outputs
<1> QED
  BY <1>2, <1>3, <1>4, <1>5, NoneAssumption

LEMMA InitAlone == Init => AloneRebuilds
BY DEF Init, AloneRebuilds

(* An undisturbed rebuild goes on to a step it has reached.                  *)
LEMMA GoesOn ==
    ASSUME AloneRebuilds, NEW p \in Proc, p \in alone, alone' = alone, step[p] # "idle",
           \A q \in Proc \ {p} : Stays(q),
           cmd'[p] = cmd[p], report'[p] = report[p],
           step'[p] # "importing" => locks'["import"] = Free,
           step'[p] # "packing" => locks'["pack"] = Free,
           Reached(step'[p], work'[p], todo'[p], inputs', outputs')
    PROVE  AloneRebuilds'
BY DEF AloneRebuilds, Undisturbed, Stays

(* ... or it returns.                                                        *)
LEMMA ReturnsAlone ==
    ASSUME AloneRebuilds, NEW p \in Proc, p \in alone, alone' = alone, step[p] # "idle",
           \A q \in Proc \ {p} : Stays(q),
           step'[p] = "idle",
           report'[p] = "error" => Refused(inputs', outputs', races')
    PROVE  AloneRebuilds'
BY DEF AloneRebuilds, Undisturbed, Stays

LEMMA StepAlone ==
    ASSUME Typed, Derived, AloneRebuilds, NEW p \in Proc, CommandStep(p)
    PROVE  AloneRebuilds'
<1>t. ProcessesTyped /\ Fits(step[p], work[p]) /\ todo[p] \in Seq(Pack)
      /\ (Building(cmd[p], step[p]) => todo[p] # <<>>)
  BY DEF Typed, ProcessesTyped
<1>l. locks \in [Lock -> Proc \cup {Free, Stale}] /\ "import" \in Lock /\ "pack" \in Lock
  BY DEF Typed, OutputsTyped, Lock
<1>o. \A q \in Proc \ {p} : Stays(q)
  BY <1>t, OthersStay
<1>1. CASE Rebuild(p)
  <2>1. CASE alone' = {}
    BY <2>1 DEF AloneRebuilds
  <2>2. CASE alone' = {p} /\ Others(p) = {} /\ \A l \in Lock : locks[l] = Free
    <3>1. /\ step'[p] = "import" /\ work'[p] = None /\ todo'[p] = PackOrder
          /\ cmd'[p] = "rebuild" /\ report'[p] = "running"
      BY <1>1, <1>t, StartStays DEF Rebuild
    <3>2. Reached(step'[p], work'[p], todo'[p], inputs', outputs')
      <4>1. InputsValid(inputs') /\ inputs'.dump = "present"
        BY <1>1 DEF Rebuild, InputsValid, Typed, InputsTyped, Inputs
      <4>2. \A k \in Pack : Listed(k, PackOrder)
        BY OrderAssumption DEF Listed
      <4> QED
        BY <3>1, <4>1, <4>2 DEF Reached, WorkFresh
    <3>3. \A q \in Proc \ {p} : step'[q] = "idle"
      BY <1>o, <2>2 DEF Others, Stays
    <3>4. locks' = locks
      BY <1>1 DEF Rebuild, Start
    <3> QED
      BY <1>l, <2>2, <3>1, <3>2, <3>3, <3>4 DEF AloneRebuilds, Undisturbed
  <2> QED
    BY <1>1, <2>1, <2>2 DEF Rebuild
<1>2. CASE Refuse(p) \/ SingleCommand(p) \/ Stop(p)
  BY <1>2 DEF Refuse, SingleCommand, Stop, AloneRebuilds
<1>3. ASSUME ~(Rebuild(p) \/ Refuse(p) \/ SingleCommand(p) \/ Stop(p))
      PROVE  alone' = alone /\ step[p] # "idle"
  BY <1>3 DEF CommandStep, KeepImport, Import, InstallImport, KeepPartition, ReadImport,
     HashImport, Split, InstallPartition, ReadProvenance, Count, PublishModel, AssemblePack,
     InstallPack, Validate, Verify, Reads, Swap
<1>4. ASSUME ~(Rebuild(p) \/ Refuse(p) \/ SingleCommand(p) \/ Stop(p)), p \notin alone
      PROVE  AloneRebuilds'
  <2>1. alone = {}
    BY <1>3, <1>4 DEF AloneRebuilds, Undisturbed, Typed, InputsTyped
  <2> QED
    BY <1>3, <1>4, <2>1 DEF AloneRebuilds
<1>5. ASSUME ~(Rebuild(p) \/ Refuse(p) \/ SingleCommand(p) \/ Stop(p)), p \in alone
      PROVE  AloneRebuilds'
  <2>a. alone' = alone /\ step[p] # "idle"
    BY <1>3, <1>5
  <2>u. /\ cmd[p] = "rebuild" /\ report[p] = "running"
        /\ step[p] # "importing" => locks["import"] = Free
        /\ step[p] # "packing" => locks["pack"] = Free
        /\ Reached(step[p], work[p], todo[p], inputs, outputs)
    BY <1>5, <2>a DEF AloneRebuilds, Undisturbed
  <2>v. InputsValid(inputs)
    BY <2>u DEF Reached
  <2>k. todo[p] # <<>> \/ step[p] \in {"validate", "verify"}
    BY <1>t, <2>a, <2>u DEF Building
  <2>e. ASSUME Return(p, "error"), Refused(inputs', outputs', races') PROVE AloneRebuilds'
    <3>1. step'[p] = "idle"
      BY <1>t, <2>e, ReturnStays
    <3> QED
      BY <1>5, <1>o, <2>a, <2>e, <3>1, ReturnsAlone
  <2>g. ASSUME NEW s, NEW w, NEW packs, Proceed(p, s, w, packs),
               s # "importing" => locks'["import"] = Free,
               s # "packing" => locks'["pack"] = Free,
               Reached(s, w, packs, inputs', outputs')
        PROVE  AloneRebuilds'
    <3>1. /\ step'[p] = s /\ work'[p] = w /\ todo'[p] = packs
          /\ cmd'[p] = cmd[p] /\ report'[p] = report[p]
      BY <1>t, <2>g, ProceedStays
    <3> QED
      BY <1>5, <1>o, <2>a, <2>g, <3>1, GoesOn
  <2>d. ASSUME NEW s, Done(p, s) PROVE Proceed(p, s, None, todo[p])
    BY <2>u, <2>d DEF Done, GoOn, Rebuilding
  <2>1. CASE KeepImport(p)
    <3>1. outputs.canonical = FreshImport(inputs)
      BY <2>1 DEF KeepImport, NeedsImport, CanonicalVerifies, FreshImport, Typed,
         OutputsTyped, Outputs, Canonical
    <3>2. Reached("partition", None, todo[p], inputs, outputs)
      BY <2>1, <2>u, <3>1 DEF KeepImport, Reached, WorkFresh
    <3> QED
      BY <2>1, <2>g, <2>u, <3>2 DEF KeepImport, GoOn, Reads
  <2>2. CASE Import(p)
    <3>1. locks["import"] = Free
      BY <2>2, <2>u DEF Import
    <3>2. Reached("importing", Staged(inputs), todo[p], inputs, outputs)
      BY <2>2, <2>u DEF Import, Reached, WorkFresh, Staged, FreshImport
    <3>3. locks'["pack"] = Free
      BY <1>l, <2>2, <2>u, <3>1 DEF Import
    <3> QED
      BY <2>2, <2>g, <2>u, <3>1, <3>2, <3>3 DEF Import, GoOn, Reads
  <2>3. CASE InstallImport(p)
    <3>1. outputs'.canonical = FreshImport(inputs)
      BY <2>3, <2>u, WithParts DEF InstallImport, Swap, Reached, Swaps, Target
    <3>2. Reached("partition", None, todo[p], inputs', outputs')
      BY <2>3, <2>u, <3>1 DEF InstallImport, Swap, Reached, WorkFresh
    <3>3. locks'["import"] = Free /\ locks'["pack"] = Free
      BY <1>l, <2>3, <2>u DEF InstallImport
    <3> QED
      BY <2>3, <2>d, <2>g, <3>2, <3>3 DEF InstallImport
  <2>4. CASE KeepPartition(p)
    <3>1. Reached("model", None, todo[p], inputs, outputs)
      BY <2>4, <2>u DEF KeepPartition, Reached, WorkFresh, PartitionStale
    <3> QED
      BY <2>4, <2>g, <2>u, <3>1 DEF KeepPartition, GoOn, Reads
  <2>5. CASE ReadImport(p)
    <3>1. outputs.canonical = FreshImport(inputs)
      BY <2>5, <2>u DEF ReadImport, Reached
    <3>2. CanonicalVerifies(inputs, outputs)
      BY <2>v, <3>1, FreshExists DEF CanonicalVerifies, FreshImport
    <3>3. Reached("hashing", outputs.canonical, todo[p], inputs, outputs)
      BY <2>5, <2>u, <3>1 DEF ReadImport, Reached, WorkFresh
    <3> QED
      BY <2>5, <2>g, <2>u, <3>2, <3>3 DEF ReadImport, GoOn, Reads
  <2>16. CASE HashImport(p)
    <3> DEFINE w == [listed |-> work[p],
                     manifest |-> [canonical |-> outputs.canonical, policy |-> inputs.policy]]
    <3>1. outputs.canonical = FreshImport(inputs) /\ work[p] = FreshImport(inputs)
      BY <2>16, <2>u DEF HashImport, Reached, WorkFresh
    <3>2. outputs.canonical # None
      BY <2>v, <3>1, FreshExists
    <3>3. Reached("splitting", w, todo[p], inputs, outputs)
      BY <2>16, <2>u, <3>1 DEF HashImport, Reached, WorkFresh, FreshManifest
    <3>4. GoOn(p, "splitting", w)
      BY <2>16, <3>2 DEF HashImport
    <3> HIDE DEF w
    <3> QED
      BY <2>16, <2>g, <2>u, <3>3, <3>4 DEF HashImport, GoOn, Reads
  <2>6. CASE Split(p)
    <3> DEFINE P == [manifest |-> work[p].manifest,
                     docs |-> [outputs.canonical EXCEPT !.kuwiki = work[p].listed.kuwiki]]
    <3>1. outputs.canonical = FreshImport(inputs) /\ work[p].manifest = FreshManifest(inputs)
      BY <2>6, <2>u DEF Split, Reached, WorkFresh
    <3>3. outputs.canonical # None /\ outputs.canonical.kuwiki = "imported"
      BY <2>v, <3>1, FreshExists DEF FreshImport
    <3>4. GoOn(p, "swapping", P)
      BY <2>6, <3>3 DEF Split
    <3>5. Reached("swapping", P, todo[p], inputs, outputs)
      BY <2>6, <2>u, <3>1 DEF Split, Reached, WorkFresh
    <3> QED
      BY <2>6, <2>g, <2>u, <3>4, <3>5 DEF Split, GoOn, Reads
  <2>7. CASE InstallPartition(p)
    <3>1. work[p] \in Partition /\ work[p].manifest = FreshManifest(inputs)
      BY <1>t, <2>7, <2>u DEF InstallPartition, Reached, WorkFresh, Fits
    <3>2. outputs'.partition = work[p] /\ outputs'.canonical = outputs.canonical
      BY <2>7, WithParts DEF InstallPartition, Swap, Swaps, Target
    <3>3. /\ outputs'.partition # None
          /\ outputs'.partition.manifest.canonical = FreshImport(inputs)
      BY <3>1, <3>2, NoneAssumption DEF FreshManifest
    <3>4. Reached("model", None, todo[p], inputs', outputs')
      BY <2>7, <2>u, <3>2, <3>3 DEF InstallPartition, Swap, Reached, WorkFresh
    <3> QED
      BY <2>7, <2>d, <2>g, <2>u, <3>4 DEF InstallPartition
  <2>8. CASE ReadProvenance(p)
    <3>1. /\ outputs.canonical = FreshImport(inputs) /\ outputs.partition # None
          /\ outputs.partition.manifest.canonical = FreshImport(inputs)
      BY <2>8, <2>u DEF ReadProvenance, Reached
    <3>2. CASE outputs.partition.manifest.policy = inputs.policy
      <4>1. /\ CanonicalVerifies(inputs, outputs) /\ PartitionVerifies(inputs, outputs)
            /\ outputs.canonical.kuwiki = "imported"
        BY <2>v, <3>1, <3>2, FreshExists DEF CanonicalVerifies, PartitionVerifies, FreshImport
      <4>2. outputs.partition.manifest = FreshManifest(inputs)
        BY <3>1, <3>2 DEF FreshManifest, Typed, OutputsTyped, Outputs, Partition,
                          PartitionManifest
      <4>3. GoOn(p, "counting", FreshReading(inputs))
        BY <2>8, <2>u, <3>1, <4>1, <4>2 DEF ReadProvenance, Rebuilding, FreshReading
      <4>4. Reached("counting", FreshReading(inputs), todo[p], inputs, outputs)
        BY <2>8, <2>u, <3>1, <4>2 DEF ReadProvenance, Reached, WorkFresh, PartitionFresh
      <4> QED
        BY <2>8, <2>g, <2>u, <4>3, <4>4 DEF ReadProvenance, GoOn, Reads
    <3>3. CASE outputs.partition.manifest.policy # inputs.policy
      <4>1. Return(p, "error") /\ Refused(inputs', outputs', races')
        BY <2>8, <3>1, <3>3 DEF ReadProvenance, PartitionVerifies, Refused, Reads
      <4> QED
        BY <2>e, <4>1
    <3> QED
      BY <3>2, <3>3
  <2>9. CASE Count(p)
    <3>1. /\ outputs.canonical = FreshImport(inputs) /\ PartitionFresh(inputs, outputs)
          /\ work[p] = FreshReading(inputs)
      BY <2>9, <2>u DEF Count, Reached, WorkFresh
    <3>2. CASE outputs.partition.docs.kuwiki # "imported"
      <4>1. Refused(inputs, outputs, races)
        BY <3>1, <3>2 DEF Derived, OutputsDerived, PartitionDerived, PartitionFresh,
           FreshManifest, FreshImport, Refused
      <4>2. Return(p, "error") /\ Refused(inputs', outputs', races')
        BY <2>9, <3>2, <4>1 DEF Count, Reads
      <4> QED
        BY <2>e, <4>2
    <3>3. CASE outputs.partition.docs.kuwiki = "imported"
      <4>1. /\ work[p].registry = inputs.registry /\ work[p].canonical = FreshImport(inputs)
            /\ work[p].manifest = FreshManifest(inputs) /\ work[p].pruned = inputs.config
            /\ work[p].counts = Production
        BY <3>1 DEF FreshReading
      <4>2. GoOn(p, "publishing", FreshModel(inputs, outputs))
        BY <2>9, <2>v, <3>1, <3>3, <4>1 DEF Count, PartitionFresh, FreshModel
      <4>3. Reached("publishing", FreshModel(inputs, outputs), todo[p], inputs, outputs)
        BY <2>9, <2>u, <3>1 DEF Count, Reached, WorkFresh
      <4> QED
        BY <2>9, <2>g, <2>u, <4>2, <4>3 DEF Count, GoOn, Reads
    <3> QED
      BY <3>2, <3>3
  <2>10. CASE PublishModel(p)
    <3>1. work[p] = FreshModel(inputs, outputs) /\ PartitionFresh(inputs, outputs)
      BY <2>10, <2>u DEF PublishModel, Reached, WorkFresh
    <3>2. /\ outputs'.model = work[p] /\ outputs'.canonical = outputs.canonical
          /\ outputs'.partition = outputs.partition
      BY <2>10, WithParts DEF PublishModel, Swap, Swaps, Target
    <3>3. PartitionFresh(inputs, outputs') /\ outputs'.model = FreshModel(inputs, outputs')
      BY <3>1, <3>2 DEF PartitionFresh, FreshModel
    <3>4. Reached("pack", None, todo[p], inputs', outputs')
      BY <2>10, <2>u, <3>2, <3>3 DEF PublishModel, Swap, Reached, WorkFresh
    <3> QED
      BY <2>10, <2>d, <2>g, <2>u, <3>4 DEF PublishModel
  <2>11. CASE AssemblePack(p)
    <3>1. outputs.model = FreshModel(inputs, outputs) /\ PartitionFresh(inputs, outputs)
      BY <2>11, <2>u DEF AssemblePack, Reached
    <3>2. ModelLoads(inputs, outputs)
      BY <2>v, <3>1, FreshExists DEF ModelLoads, PartitionFresh, FreshModel
    <3>3. Assembles(inputs, outputs, Head(todo[p])) /\ locks["pack"] = Free
      BY <2>11, <2>u, <2>v, <3>2 DEF AssemblePack, Assembles
    <3>4. /\ GoOn(p, "packing", Assembled(inputs, outputs, Head(todo[p])))
          /\ locks' = [locks EXCEPT !["pack"] = p]
      BY <2>11, <3>3 DEF AssemblePack
    <3>5. Reached("packing", Assembled(inputs, outputs, Head(todo[p])), todo[p],
                  inputs, outputs)
      BY <2>11, <2>u DEF AssemblePack, Reached, WorkFresh
    <3>6. locks'["import"] = Free
      BY <1>l, <2>11, <2>u, <3>4 DEF AssemblePack
    <3> QED
      BY <2>11, <2>g, <3>4, <3>5, <3>6 DEF AssemblePack, GoOn, Reads
  <2>12. CASE InstallPack(p)
    <3> DEFINE rest == Tail(todo[p])
    <3>1. /\ outputs'.canonical = outputs.canonical /\ outputs'.partition = outputs.partition
          /\ outputs'.model = outputs.model
          /\ outputs'.packs = [outputs.packs EXCEPT ![Head(todo[p])] = work[p]]
      BY <2>12, WithParts DEF InstallPack, Swap, Swaps, Target
    <3>2. /\ outputs.model = FreshModel(inputs, outputs) /\ PartitionFresh(inputs, outputs)
          /\ outputs.canonical = FreshImport(inputs)
          /\ work[p] = Assembled(inputs, outputs, Head(todo[p]))
          /\ \A k \in Pack : Listed(k, todo[p]) \/ PackFresh(inputs, outputs, k)
      BY <2>12, <2>u DEF InstallPack, Reached, WorkFresh
    <3>3. PartitionFresh(inputs, outputs') /\ outputs'.model = FreshModel(inputs, outputs')
      BY <3>1, <3>2 DEF PartitionFresh, FreshModel
    <3>4. \A k : Assembled(inputs, outputs', k) = Assembled(inputs, outputs, k)
      BY <3>1 DEF Assembled
    <3>5. ASSUME NEW k \in Pack PROVE Listed(k, rest) \/ PackFresh(inputs, outputs', k)
      <4>1. outputs.packs \in [Pack -> PackContents \cup {None}]
        BY DEF Typed, OutputsTyped, Outputs
      <4>2. CASE k = Head(todo[p])
        BY <3>1, <3>2, <3>4, <4>1, <4>2 DEF PackFresh
      <4>3. CASE k # Head(todo[p])
        <5>1. outputs'.packs[k] = outputs.packs[k]
          BY <3>1, <4>1, <4>3
        <5>2. todo[p] # <<>>
          BY <2>12, <2>k DEF InstallPack
        <5> QED
          BY <1>t, <3>2, <3>4, <4>3, <5>1, <5>2, ListedTail DEF PackFresh
      <4> QED
        BY <4>2, <4>3
    <3>6. locks'["import"] = Free /\ locks'["pack"] = Free
      BY <1>l, <2>12, <2>u DEF InstallPack
    <3>7. CASE rest # <<>>
      <4>1. Reached("pack", None, rest, inputs', outputs')
        BY <2>12, <2>u, <3>1, <3>2, <3>3, <3>5 DEF InstallPack, Swap, Reached, WorkFresh
      <4> QED
        BY <2>12, <2>g, <3>6, <3>7, <4>1 DEF InstallPack
    <3>8. CASE rest = <<>>
      <4>1. \A k \in Pack : PackFresh(inputs, outputs', k)
        BY <3>5, <3>8 DEF Listed
      <4>2. Reached("validate", None, rest, inputs', outputs')
        BY <2>12, <2>u, <3>1, <3>2, <3>3, <4>1 DEF InstallPack, Swap, Reached, WorkFresh
      <4> QED
        BY <2>12, <2>g, <2>u, <3>6, <3>8, <4>2 DEF InstallPack, Rebuilding
    <3> QED
      BY <3>7, <3>8
  <2>13. ASSUME step[p] \in {"validate", "verify"}
         PROVE  /\ PackManifestsValid(inputs, outputs) /\ VerifyOk(inputs, outputs)
                /\ \A k \in Pack : outputs.packs[k] # None
    <3>1. /\ outputs.model = FreshModel(inputs, outputs) /\ PartitionFresh(inputs, outputs)
          /\ outputs.canonical = FreshImport(inputs)
          /\ \A k \in Pack : outputs.packs[k] = Assembled(inputs, outputs, k)
      BY <2>13, <2>u DEF Reached, PackFresh
    <3>2. ModelLoads(inputs, outputs)
      BY <2>v, <3>1, FreshExists DEF ModelLoads, PartitionFresh, FreshModel
    <3>3. \A k \in Pack : outputs.packs[k] # None
      BY <2>v, <3>1, <3>2, FreshExists DEF ModelLoads
    <3>4. PackManifestsValid(inputs, outputs)
      <4>1. ASSUME NEW k \in Pack, k \notin Plain
            PROVE  outputs.packs[k].model = outputs.model
        <5>1. outputs.packs[k] = Assembled(inputs, outputs, k)
          BY <3>1
        <5>2. Assembled(inputs, outputs, k).model = outputs.model
          BY <4>1 DEF Assembled
        <5> QED
          BY <5>1, <5>2
      <4> QED
        BY <3>2, <3>3, <4>1 DEF PackManifestsValid
    <3>5. CanonicalVerifies(inputs, outputs)
      BY <2>v, <3>1, FreshExists DEF CanonicalVerifies, FreshImport
    <3>6. LocalImportAgrees(inputs, outputs) /\ LocalPipelineConsistent(inputs, outputs)
      BY <3>1, <3>5 DEF LocalImportAgrees, LocalPipelineConsistent, PartitionFresh,
                        FreshModel, FreshManifest
    <3>7. ModelCurrent(inputs, outputs)
      BY <3>1, <3>2, <3>6 DEF ModelCurrent, FreshModel
    <3>8. \A k \in Pack : PackCurrent(inputs, outputs, k)
      BY <2>v, <3>1, <3>2 DEF PackCurrent, Assembles
    <3> QED
      BY <2>v, <3>3, <3>4, <3>6, <3>7, <3>8 DEF VerifyOk
  <2>14. CASE Validate(p)
    <3>1. GoOn(p, "verify", None)
      BY <2>13, <2>14 DEF Validate
    <3>2. Reached("verify", None, todo[p], inputs, outputs)
      BY <2>14, <2>u DEF Validate, Reached, WorkFresh
    <3> QED
      BY <2>14, <2>g, <2>u, <3>1, <3>2 DEF Validate, GoOn, Reads
  <2>15. CASE Verify(p)
    <3>1. Return(p, "ok")
      BY <2>13, <2>15 DEF Verify
    <3>2. step'[p] = "idle" /\ report'[p] = "ok"
      BY <1>t, <3>1, ReturnStays
    <3> QED
      BY <1>5, <1>o, <2>a, <3>2, ReturnsAlone
  <2> QED
    BY <1>5, <2>1, <2>2, <2>3, <2>4, <2>5, <2>6, <2>7, <2>8, <2>9, <2>10, <2>11, <2>12,
       <2>14, <2>15, <2>16 DEF CommandStep
<1> QED
  BY <1>1, <1>2, <1>4, <1>5

LEMMA NextAlone == Typed /\ Derived /\ AloneRebuilds /\ [Next]_vars => AloneRebuilds'
<1> SUFFICES ASSUME Typed, Derived, AloneRebuilds, [Next]_vars PROVE AloneRebuilds'
  OBVIOUS
<1>1. ASSUME NEW p \in Proc, CommandStep(p) PROVE AloneRebuilds'
  BY <1>1, StepAlone
<1>2. CASE EditInput \/ MoveDump \/ Upgrade
  BY <1>2 DEF EditInput, MoveDump, Upgrade, Edited, AloneRebuilds
<1>3. CASE ClearLock
  <2>1. ASSUME NEW p \in alone PROVE Undisturbed(p)'
    <3>1. Undisturbed(p) /\ p \in Proc
      BY DEF AloneRebuilds, Typed, InputsTyped
    <3>2. \A l \in Lock : locks[l] = Free => locks'[l] = Free
      BY <1>3 DEF ClearLock, Typed, OutputsTyped
    <3> QED
      BY <1>3, <3>1, <3>2 DEF ClearLock, Undisturbed, Lock
  <2> QED
    BY <1>3, <2>1 DEF ClearLock, AloneRebuilds
<1>4. CASE UNCHANGED vars
  BY <1>4 DEF vars, AloneRebuilds, Undisturbed
<1> QED
  BY <1>1, <1>2, <1>3, <1>4 DEF Next

THEOREM AlwaysAlone == Spec => []AloneRebuilds
BY InitTyped, NextTyped, InitDerived, NextDerived, InitAlone, NextAlone, PTL DEF Spec

(***************************************************************************)
(* A rebuild with valid inputs that nothing disturbs repairs whatever      *)
(* state the outputs are in, with two exceptions: a partition of other     *)
(* rules than those of the installed data-builder, and one split while its *)
(* import was replaced, which holds other documents than it names.         *)
(***************************************************************************)
THEOREM RebuildsRepair == Spec => []OnlyUpgradeOrRaceBreaksRebuild
<1>1. AloneRebuilds => OnlyUpgradeOrRaceBreaksRebuild
  BY DEF AloneRebuilds, Undisturbed, Refused, OnlyUpgradeOrRaceBreaksRebuild
<1> QED
  BY <1>1, AlwaysAlone, PTL

-----------------------------------------------------------------------------
(* Every derived output is what a rebuild of these inputs makes ...          *)
OutputsFresh(in, out) ==
    /\ InputsValid(in)
    /\ out.canonical = FreshImport(in)
    /\ PartitionFresh(in, out)
    /\ out.model = FreshModel(in, out)
    /\ \A k \in Pack : PackFresh(in, out, k)

(* ... and nobody is about to install something else.                        *)
Idempotent(p) ==
    /\ step[p] # "importing"
    /\ step[p] \in {"import", "model"} => Rebuilding(p)
    /\ WorkFresh(step[p], work[p], todo[p], inputs, outputs)

SettledFresh ==
    settled /\ "import" \notin races =>
        OutputsFresh(inputs, outputs) /\ \A p \in Proc : Idempotent(p)

(* Installing what is there changes nothing.                                 *)
LEMMA WithSame ==
    ASSUME Typed, NEW p \in Proc
    PROVE  /\ step[p] = "swapping" => With(p, outputs.partition) = outputs
           /\ step[p] = "publishing" => With(p, outputs.model) = outputs
           /\ step[p] = "packing" => With(p, outputs.packs[Head(todo[p])]) = outputs
<1>1. CASE step[p] = "swapping"
  <2>1. Target[step[p]] = "partition"
    BY <1>1 DEF Target
  <2> QED
    BY <1>1, <2>1 DEF With, Typed, OutputsTyped, Outputs
<1>2. CASE step[p] = "publishing"
  <2>1. Target[step[p]] = "model"
    BY <1>2 DEF Target
  <2> QED
    BY <1>2, <2>1 DEF With, Typed, OutputsTyped, Outputs
<1>3. CASE step[p] = "packing"
  <2> DEFINE h == Head(todo[p])
  <2>1. [outputs.packs EXCEPT ![h] = outputs.packs[h]] = outputs.packs
    BY DEF Typed, OutputsTyped, Outputs
  <2>2. With(p, outputs.packs[h]) =
            [outputs EXCEPT !.packs = [outputs.packs EXCEPT ![h] = outputs.packs[h]]]
    BY <1>3 DEF With
  <2> QED
    BY <1>3, <2>1, <2>2 DEF Typed, OutputsTyped, Outputs
<1> QED
  BY <1>1, <1>2, <1>3

LEMMA StepIdempotent ==
    ASSUME Typed, Derived, NEW p \in Proc, CommandStep(p), settled, settled',
           "import" \notin races, OutputsFresh(inputs, outputs),
           \A q \in Proc : Idempotent(q)
    PROVE  /\ outputs' = outputs
           /\ OutputsFresh(inputs', outputs')
           /\ \A q \in Proc : Idempotent(q)'
<1> DEFINE Goal == /\ outputs' = outputs
                   /\ OutputsFresh(inputs', outputs')
                   /\ \A q \in Proc : Idempotent(q)'
<1> SUFFICES Goal
  OBVIOUS
<1>t. ProcessesTyped /\ Fits(step[p], work[p])
  BY DEF Typed, ProcessesTyped
<1>o. \A q \in Proc \ {p} : Stays(q)
  BY <1>t, OthersStay
<1>f. /\ outputs.canonical = FreshImport(inputs) /\ InputsValid(inputs)
      /\ PartitionFresh(inputs, outputs) /\ outputs.model = FreshModel(inputs, outputs)
      /\ \A k \in Pack : outputs.packs[k] = Assembled(inputs, outputs, k)
  BY DEF OutputsFresh, PackFresh
<1>c. /\ CanonicalVerifies(inputs, outputs) /\ outputs.canonical.kuwiki = "imported"
      /\ outputs.canonical # None
  BY <1>f, FreshExists DEF CanonicalVerifies, FreshImport
<1>i. /\ step[p] # "importing"
      /\ step[p] \in {"import", "model"} => Rebuilding(p)
      /\ WorkFresh(step[p], work[p], todo[p], inputs, outputs)
  BY DEF Idempotent
<1>g. ASSUME outputs' = outputs,
             inputs' = inputs \/ inputs' = [inputs EXCEPT !.dump = "present"],
             step'[p] # "importing",
             step'[p] \in {"import", "model"} => cmd'[p] = "rebuild",
             WorkFresh(step'[p], work'[p], todo'[p], inputs, outputs)
      PROVE  Goal
  <2>1. /\ inputs'.registry = inputs.registry /\ inputs'.config = inputs.config
        /\ inputs'.decisions = inputs.decisions /\ inputs'.policy = inputs.policy
    BY <1>g DEF Typed, InputsTyped, Inputs
  <2>2. \A s, w, packs : WorkFresh(s, w, packs, inputs', outputs')
                             <=> WorkFresh(s, w, packs, inputs, outputs)
    BY <1>g, <2>1 DEF WorkFresh, FreshManifest, FreshReading, FreshModel, FreshImport,
                      Assembled
  <2>3. OutputsFresh(inputs', outputs')
    BY <1>f, <1>g, <2>1 DEF OutputsFresh, PartitionFresh, PackFresh, FreshManifest,
       FreshModel, FreshImport, Assembled, InputsValid
  <2>4. ASSUME NEW q \in Proc PROVE Idempotent(q)'
    <3>1. CASE q = p
      BY <1>g, <2>2, <3>1 DEF Idempotent, Rebuilding
    <3>2. CASE q # p
      BY <1>o, <2>2, <3>2 DEF Idempotent, Rebuilding, Stays
    <3> QED
      BY <3>1, <3>2
  <2> QED
    BY <1>g, <2>3, <2>4
<1>r. ASSUME outputs' = outputs, inputs' = inputs, NEW r, Return(p, r) PROVE Goal
  <2>1. step'[p] = "idle"
    BY <1>t, <1>r, ReturnStays
  <2> QED
    BY <1>g, <1>r, <2>1 DEF WorkFresh
<1>p. ASSUME outputs' = outputs, inputs' = inputs, NEW s, NEW w, NEW packs,
             Proceed(p, s, w, packs), s \notin {"import", "importing"},
             s = "model" => Rebuilding(p), WorkFresh(s, w, packs, inputs, outputs)
      PROVE  Goal
  <2>1. step'[p] = s /\ work'[p] = w /\ todo'[p] = packs /\ cmd'[p] = cmd[p]
    BY <1>t, <1>p, ProceedStays
  <2> QED
    BY <1>g, <1>p, <2>1 DEF Rebuilding
<1>d. ASSUME outputs' = outputs, inputs' = inputs, NEW s \in {"partition", "model", "pack"},
             Done(p, s)
      PROVE  Goal
  <2>1. CASE Rebuilding(p)
    <3>1. Proceed(p, s, None, todo[p])
      BY <1>d, <2>1 DEF Done, GoOn
    <3>2. WorkFresh(s, None, todo[p], inputs, outputs)
      BY DEF WorkFresh
    <3> HIDE DEF Goal
    <3> QED
      BY <1>d, <1>p, <2>1, <3>1, <3>2
  <2>2. CASE ~Rebuilding(p)
    BY <1>d, <1>r, <2>2 DEF Done
  <2> QED
    BY <2>1, <2>2
<1> HIDE DEF Goal
<1>1. CASE Rebuild(p)
  <2>1. step'[p] = "import" /\ cmd'[p] = "rebuild"
    BY <1>1, <1>t, StartStays DEF Rebuild
  <2>2. outputs' = outputs
    BY <1>1 DEF Rebuild, Start
  <2>3. inputs' = [inputs EXCEPT !.dump = "present"]
    BY <1>1 DEF Rebuild
  <2> QED
    BY <1>g, <2>1, <2>2, <2>3 DEF WorkFresh
<1>2. CASE Refuse(p)
  <2>1. step'[p] = "idle"
    BY <1>2, <1>t, StartStays DEF Refuse
  <2> QED
    BY <1>g, <1>2, <2>1 DEF WorkFresh, Refuse, Start
<1>3. CASE SingleCommand(p)
  <2>1. cmd'[p] \in {"partition", "pack"}
    BY <1>3 DEF SingleCommand
  <2>2. step'[p] \in {"partition", "pack"}
    <3>1. ASSUME NEW c, NEW packs, NEW s, Start(p, c, s, packs)
          PROVE  step'[p] = s /\ cmd'[p] = c
      BY <1>t, <3>1 DEF Start, ProcessesTyped
    <3> QED
      BY <1>3, <2>1, <3>1 DEF SingleCommand
  <2>3. outputs' = outputs /\ inputs' = inputs
    BY <1>3 DEF SingleCommand, Start
  <2> QED
    BY <1>g, <2>2, <2>3 DEF WorkFresh
<1>4. CASE KeepImport(p)
  <2>1. WorkFresh("partition", None, todo[p], inputs, outputs)
    BY DEF WorkFresh
  <2> QED
    BY <1>4, <1>p, <2>1 DEF KeepImport, GoOn, Reads
<1>5. CASE Import(p)
  BY <1>5, <1>c, <1>i DEF Import, NeedsImport
<1>6. CASE InstallImport(p)
  BY <1>6, <1>i DEF InstallImport
<1>7. CASE KeepPartition(p)
  <2>1. WorkFresh("model", None, todo[p], inputs, outputs)
    BY DEF WorkFresh
  <2> QED
    BY <1>7, <1>p, <2>1 DEF KeepPartition, GoOn, Reads
<1>8. CASE ReadImport(p)
  <2>1. WorkFresh("hashing", outputs.canonical, todo[p], inputs, outputs)
    BY <1>f DEF WorkFresh
  <2> QED
    BY <1>8, <1>c, <1>p, <2>1 DEF ReadImport, GoOn, Reads
<1>19. CASE HashImport(p)
  <2> DEFINE w == [listed |-> work[p],
                   manifest |-> [canonical |-> outputs.canonical, policy |-> inputs.policy]]
  <2>1. work[p] = FreshImport(inputs)
    BY <1>19, <1>i DEF HashImport, WorkFresh
  <2>2. WorkFresh("splitting", w, todo[p], inputs, outputs)
    BY <1>f, <2>1 DEF WorkFresh, FreshManifest
  <2>3. GoOn(p, "splitting", w)
    BY <1>19, <1>c DEF HashImport
  <2> HIDE DEF w
  <2> QED
    BY <1>19, <1>p, <2>2, <2>3 DEF HashImport, GoOn, Reads
<1>9. CASE Split(p)
  <2> DEFINE P == [manifest |-> work[p].manifest,
                   docs |-> [outputs.canonical EXCEPT !.kuwiki = work[p].listed.kuwiki]]
  <2>1. work[p].manifest = FreshManifest(inputs)
    BY <1>9, <1>i DEF Split, WorkFresh
  <2>2. WorkFresh("swapping", P, todo[p], inputs, outputs)
    BY <2>1 DEF WorkFresh
  <2>3. GoOn(p, "swapping", P)
    BY <1>9, <1>c DEF Split
  <2> QED
    BY <1>9, <1>p, <2>2, <2>3 DEF Split, GoOn, Reads
<1>10. CASE InstallPartition(p)
  <2>1. work[p] \in Partition /\ outputs.partition \in Partition
    BY <1>10, <1>f, <1>t DEF InstallPartition, Fits, PartitionFresh, Typed, OutputsTyped,
                             Outputs
  <2>2. work[p].manifest = FreshManifest(inputs)
        /\ outputs.partition.manifest = FreshManifest(inputs)
    BY <1>10, <1>f, <1>i DEF InstallPartition, WorkFresh, PartitionFresh
  <2>3. PartitionDerived(work[p], races) /\ PartitionDerived(outputs.partition, races)
    BY <1>10, <1>f DEF InstallPartition, Derived, WorkDerived, OutputsDerived, PartitionFresh
  <2>4. work[p] = outputs.partition
    BY <2>1, <2>2, <2>3 DEF PartitionDerived, Partition
  <2>5. outputs' = outputs
    BY <1>10, <2>4, WithSame DEF InstallPartition, Swap
  <2> QED
    BY <1>10, <1>d, <2>5 DEF InstallPartition, Swap
<1>11. CASE ReadProvenance(p)
  <2>1. CASE Return(p, "error")
    BY <1>11, <1>r, <2>1 DEF ReadProvenance, Reads
  <2>2. CASE ~Return(p, "error")
    <3>1. GoOn(p, "counting",
               [registry |-> inputs.registry, canonical |-> outputs.canonical,
                manifest |-> outputs.partition.manifest,
                pruned |-> inputs.config, counts |-> Production])
      BY <1>11, <1>i, <2>2 DEF ReadProvenance
    <3>2. GoOn(p, "counting", FreshReading(inputs))
      BY <1>f, <3>1 DEF FreshReading, PartitionFresh
    <3>3. WorkFresh("counting", FreshReading(inputs), todo[p], inputs, outputs)
      BY DEF WorkFresh
    <3> QED
      BY <1>11, <1>p, <3>2, <3>3 DEF ReadProvenance, GoOn, Reads
  <2> QED
    BY <2>1, <2>2
<1>12. CASE Count(p)
  <2>1. CASE Return(p, "error")
    BY <1>12, <1>r, <2>1 DEF Count, Reads
  <2>2. CASE ~Return(p, "error")
    <3>1. work[p] = FreshReading(inputs)
      BY <1>12, <1>i DEF Count, WorkFresh
    <3>2. GoOn(p, "publishing", FreshModel(inputs, outputs))
      BY <1>12, <2>2, <3>1 DEF Count, FreshReading, FreshModel
    <3>3. WorkFresh("publishing", FreshModel(inputs, outputs), todo[p], inputs, outputs)
      BY DEF WorkFresh
    <3> QED
      BY <1>12, <1>p, <3>2, <3>3 DEF Count, GoOn, Reads
  <2> QED
    BY <2>1, <2>2
<1>13. CASE PublishModel(p)
  <2>1. work[p] = outputs.model
    BY <1>13, <1>f, <1>i DEF PublishModel, WorkFresh
  <2>2. outputs' = outputs
    BY <1>13, <2>1, WithSame DEF PublishModel, Swap
  <2> QED
    BY <1>13, <1>d, <2>2 DEF PublishModel, Swap
<1>14. CASE AssemblePack(p)
  <2>1. WorkFresh("packing", Assembled(inputs, outputs, Head(todo[p])), todo[p],
                  inputs, outputs)
    BY DEF WorkFresh
  <2> QED
    BY <1>14, <1>p, <1>r, <2>1 DEF AssemblePack, GoOn, Reads
<1>15. CASE InstallPack(p)
  <2>0. Head(todo[p]) \in Pack
    BY <1>15 DEF InstallPack, Typed, ProcessesTyped, Building
  <2>1. work[p] = outputs.packs[Head(todo[p])]
    BY <1>15, <1>f, <1>i, <2>0 DEF InstallPack, WorkFresh
  <2>2. outputs' = outputs /\ inputs' = inputs
    BY <1>15, <2>1, WithSame DEF InstallPack, Swap
  <2>3. \A s \in {"pack", "validate"} :
            WorkFresh(s, None, Tail(todo[p]), inputs, outputs)
    BY DEF WorkFresh
  <2>4. CASE \E s \in {"pack", "validate"} : Proceed(p, s, None, Tail(todo[p]))
    BY <1>p, <2>2, <2>3, <2>4
  <2>5. CASE Return(p, "ok")
    BY <1>r, <2>2, <2>5
  <2> QED
    BY <1>15, <2>4, <2>5 DEF InstallPack
<1>16. CASE Validate(p)
  <2>1. WorkFresh("verify", None, todo[p], inputs, outputs)
    BY DEF WorkFresh
  <2> QED
    BY <1>16, <1>p, <1>r, <2>1 DEF Validate, GoOn, Reads
<1>17. CASE Verify(p)
  BY <1>17, <1>r DEF Verify
<1>18. CASE Stop(p)
  BY <1>18 DEF Stop
<1> QED
  BY <1>1, <1>2, <1>3, <1>4, <1>5, <1>6, <1>7, <1>8, <1>9, <1>10, <1>11, <1>12, <1>13,
     <1>14, <1>15, <1>16, <1>17, <1>18, <1>19 DEF CommandStep

LEMMA NextIdempotent ==
    ASSUME Typed, Derived, SettledFresh, [Next]_vars, settled, settled', "import" \notin races
    PROVE  /\ outputs' = outputs
           /\ OutputsFresh(inputs', outputs')
           /\ \A q \in Proc : Idempotent(q)'
<1>0. OutputsFresh(inputs, outputs) /\ \A q \in Proc : Idempotent(q)
  BY DEF SettledFresh
<1>1. CASE \E p \in Proc : CommandStep(p)
  BY <1>0, <1>1, StepIdempotent
<1>2. CASE ClearLock \/ UNCHANGED vars
  BY <1>0, <1>2 DEF ClearLock, vars, Idempotent, Rebuilding
<1>3. CASE EditInput \/ Upgrade
  BY <1>3 DEF EditInput, Upgrade
<1>4. CASE MoveDump
  <2>1. /\ inputs'.registry = inputs.registry /\ inputs'.config = inputs.config
        /\ inputs'.decisions = inputs.decisions /\ inputs'.policy = inputs.policy
    BY <1>4 DEF MoveDump, Edited, Typed, InputsTyped, Inputs
  <2>2. UNCHANGED <<outputs, cmd, step, todo, work>>
    BY <1>4 DEF MoveDump, Edited
  <2>3. OutputsFresh(inputs', outputs')
    BY <1>0, <2>1, <2>2 DEF OutputsFresh, PartitionFresh, PackFresh, FreshManifest,
       FreshModel, FreshImport, Assembled, InputsValid
  <2>4. ASSUME NEW q \in Proc PROVE Idempotent(q)'
    BY <1>0, <2>1, <2>2 DEF Idempotent, Rebuilding, WorkFresh, FreshManifest, FreshReading,
       FreshModel, FreshImport, Assembled
  <2> QED
    BY <2>2, <2>3, <2>4
<1> QED
  BY <1>1, <1>2, <1>3, <1>4 DEF Next

LEMMA NextSettled ==
    Typed /\ Derived /\ AloneRebuilds /\ SettledFresh /\ [Next]_vars => SettledFresh'
<1> SUFFICES ASSUME Typed, Derived, AloneRebuilds, SettledFresh, [Next]_vars,
                    settled', "import" \notin races'
             PROVE  OutputsFresh(inputs', outputs') /\ \A q \in Proc : Idempotent(q)'
  BY DEF SettledFresh
<1>1. "import" \notin races
  <2>1. ASSUME NEW p \in Proc, CommandStep(p) PROVE races \subseteq races'
    BY <2>1 DEF CommandStep, Rebuild, Refuse, SingleCommand, Start, KeepImport, Import,
       InstallImport, KeepPartition, ReadImport, HashImport, Split, InstallPartition,
       ReadProvenance, Count, PublishModel, AssemblePack, InstallPack, Validate, Verify, Reads, Swap, Stop
  <2> QED
    BY <2>1 DEF Next, ClearLock, EditInput, MoveDump, Upgrade, vars
<1>2. CASE settled
  BY <1>1, <1>2, NextIdempotent
<1>3. CASE ~settled
  <2>1. PICK p \in Proc : Verify(p) /\ p \in alone
    <3>1. ASSUME NEW p \in Proc, CommandStep(p) PROVE Verify(p) /\ p \in alone
      BY <1>3, <3>1 DEF CommandStep, Rebuild, Refuse, SingleCommand, KeepImport, Import,
         InstallImport, KeepPartition, ReadImport, HashImport, Split, InstallPartition,
         ReadProvenance, Count, PublishModel, AssemblePack, InstallPack, Validate, Verify, Reads, Swap, Stop
    <3> QED
      BY <1>3, <3>1 DEF Next, ClearLock, EditInput, MoveDump, Upgrade, vars
  <2>2. /\ Reached("verify", work[p], todo[p], inputs, outputs)
        /\ \A q \in Proc \ {p} : step[q] = "idle"
    BY <2>1 DEF Verify, AloneRebuilds, Undisturbed
  <2>3. OutputsFresh(inputs', outputs')
    BY <2>1, <2>2 DEF Verify, Reached, OutputsFresh
  <2>4. \A q \in Proc : step'[q] = "idle"
    BY <2>1, <2>2 DEF Verify, Return, Typed, ProcessesTyped
  <2> QED
    BY <2>3, <2>4 DEF Idempotent, WorkFresh
<1> QED
  BY <1>2, <1>3

(***************************************************************************)
(* Once a rebuild that nothing disturbed has succeeded, every output stays *)
(* what a rebuild of the inputs makes, while rebuilds, partitions and pack *)
(* builds run, and none of them changes an output.                         *)
(***************************************************************************)
THEOREM RebuildsRepeat == Spec => RebuildChangesNothing
<1> DEFINE I == Typed /\ Derived /\ AloneRebuilds /\ SettledFresh
<1>1. Init => I
  BY InitTyped, InitDerived, InitAlone DEF Init, SettledFresh
<1>2. I /\ [Next]_vars => I'
  BY NextTyped, NextDerived, NextAlone, NextSettled
<1>3. I /\ [Next]_vars =>
          [settled /\ settled' /\ "import" \notin races => outputs' = outputs]_vars
  BY NextIdempotent
<1> QED
  BY <1>1, <1>2, <1>3, PTL DEF Spec, RebuildChangesNothing
==============================================================================
