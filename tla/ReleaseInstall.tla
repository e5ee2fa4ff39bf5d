--------------------------- MODULE ReleaseInstall ---------------------------
(***************************************************************************)
(* The installation of a release bundle, data-builder/src/release.rs:      *)
(* the tail of build_release_bundle_from_state, which writes the stage     *)
(* directory, and install_directory_with, which swaps it in.               *)
(*                                                                         *)
(* One run of the release command is in progress at a time; it may be      *)
(* killed between any two file-system calls (Crash), each rename and       *)
(* remove_dir_all may fail, and the command may be started again after     *)
(* any of those.  rename is atomic; remove_dir_all and writing are not.    *)
(***************************************************************************)
EXTENDS DirSlots

CONSTANT MaxRuns          \* bound: how many times the command is started

ASSUME MaxRunsAssumption == MaxRuns \in Nat

VARIABLES
    dir,      \* contents of target, stage and backup
    pc,       \* the call the current run makes next; "idle" between runs
    run,      \* number of the current (or last) run: the version it writes
    seen,     \* target_exists, backup_exists: which of the two were found
    result,   \* what the last run reported ("crashed" when it was killed)
    before    \* history: what could be recovered when the current run began

vars == <<dir, pc, run, seen, result, before>>

Steps == {"clean", "write", "inspect", "drop_stale", "restore", "park",
          "install", "cleanup", "rollback"}

Results == {"none", "crashed", "installed", "installed_leftover",
            "not_replaced", "not_restored", "restored", "stranded"}

Init ==
    /\ dir = [s \in Slot |-> Absent]
    /\ pc = "idle"
    /\ run = 0
    /\ seen = {}
    /\ result = "none"
    /\ before = Absent

At(step) == pc = step

had_previous == seen # {}

(* The run moves on to its next call. *)
Goto(step) == pc' = step /\ UNCHANGED <<run, result, before>>

(* The run ends and reports r. *)
Report(r) ==
    /\ pc' = "idle"
    /\ result' = r
    /\ seen' = {}
    /\ UNCHANGED <<run, before>>

(***************************************************************************)
(* Writing the stage directory.                                            *)
(***************************************************************************)

(* A stage left by an earlier run is removed first, when there is one. *)
Start ==
    /\ At("idle")
    /\ run < MaxRuns
    /\ run' = run + 1
    /\ pc' = IF Exists(dir, "stage") THEN "clean" ELSE "write"
    /\ before' = Recoverable(dir)
    /\ result' = "none"
    /\ UNCHANGED <<dir, seen>>

CleanStage ==
    /\ At("clean")
    /\ \/ dir' = Removed(dir, "stage") /\ Goto("write") /\ UNCHANGED seen
       \/ dir' = HalfRemoved(dir, "stage") /\ Report("not_replaced")

(* Mutant: the stage is numbered one run ahead. *)
WriteStageAhead ==
    /\ At("write")
    /\ \/ dir' = [dir EXCEPT !["stage"] = Whole(run + 1)] /\ Goto("inspect") /\ UNCHANGED seen
       \/ dir' = dir /\ Report("not_replaced")

(* The files are written one by one; any write may fail. *)
WriteStage ==
    /\ At("write")
    /\ \/ dir' = [dir EXCEPT !["stage"] = Part(run)] /\ Goto("write") /\ UNCHANGED seen
       \/ dir' = [dir EXCEPT !["stage"] = Whole(run)] /\ Goto("inspect") /\ UNCHANGED seen
       \/ dir' = dir /\ Report("not_replaced")

(***************************************************************************)
(* install_directory_with.                                                 *)
(***************************************************************************)

(* Mutant: a backup is stale wherever it is found, as in build_pack. *)
InspectBackupOnly ==
    /\ At("inspect")
    /\ seen' = {s \in {"target", "backup"} : Exists(dir, s)}
    /\ \/ "backup" \in seen' /\ Goto("drop_stale")
       \/ seen' = {"target"} /\ Goto("park")
       \/ seen' = {} /\ Goto("install")
    /\ UNCHANGED dir

(* target_exists and backup_exists decide the recovery step. *)
Inspect ==
    /\ At("inspect")
    /\ seen' = {s \in {"target", "backup"} : Exists(dir, s)}
    /\ \/ seen' = {"target", "backup"} /\ Goto("drop_stale")
       \/ seen' = {"backup"} /\ Goto("restore")
       \/ seen' = {"target"} /\ Goto("park")
       \/ seen' = {} /\ Goto("install")
    /\ UNCHANGED dir

(* (true, true): the target is authoritative, the backup is stale. *)
DropStaleBackup ==
    /\ At("drop_stale")
    /\ \/ dir' = Removed(dir, "backup") /\ Goto("park") /\ UNCHANGED seen
       \/ dir' = HalfRemoved(dir, "backup") /\ Report("not_replaced")

(* (false, true): the backup is the only copy; restore it or stop. *)
RestoreBackup ==
    /\ At("restore")
    /\ \/ /\ CanRename(dir, "backup", "target")
          /\ dir' = Renamed(dir, "backup", "target")
          /\ Goto("park")
          /\ UNCHANGED seen
       \/ UNCHANGED dir /\ Report("not_restored")

(* Mutant: the previous bundle is removed, not renamed. *)
ParkByRemoval ==
    /\ At("park")
    /\ dir' = Removed(dir, "target")
    /\ Goto("install")
    /\ UNCHANGED seen

Park ==
    /\ At("park")
    /\ \/ /\ CanRename(dir, "target", "backup")
          /\ dir' = Renamed(dir, "target", "backup")
          /\ Goto("install")
          /\ UNCHANGED seen
       \/ UNCHANGED dir /\ Report("not_replaced")

Install ==
    /\ At("install")
    /\ \/ /\ CanRename(dir, "stage", "target")
          /\ dir' = Renamed(dir, "stage", "target")
          /\ IF had_previous THEN Goto("cleanup") /\ UNCHANGED seen ELSE Report("installed")
       \/ /\ UNCHANGED dir
          /\ IF had_previous THEN Goto("rollback") /\ UNCHANGED seen ELSE Report("not_replaced")

RemoveBackup ==
    /\ At("cleanup")
    /\ \/ dir' = Removed(dir, "backup") /\ Report("installed")
       \/ dir' = HalfRemoved(dir, "backup") /\ Report("installed_leftover")

(* Mutant: the result of the second rename is ignored. *)
RollbackUnchecked ==
    /\ At("rollback")
    /\ \/ CanRename(dir, "backup", "target") /\ dir' = Renamed(dir, "backup", "target")
       \/ UNCHANGED dir
    /\ Report("restored")

Rollback ==
    /\ At("rollback")
    /\ \/ /\ CanRename(dir, "backup", "target")
          /\ dir' = Renamed(dir, "backup", "target")
          /\ Report("restored")
       \/ UNCHANGED dir /\ Report("stranded")

(***************************************************************************)
(* The process is killed before its next call, or half way through a       *)
(* removal.                                                                *)
(***************************************************************************)
Crash ==
    /\ pc # "idle"
    /\ \/ dir' = dir
       \/ At("clean") /\ dir' = HalfRemoved(dir, "stage")
       \/ pc \in {"drop_stale", "cleanup"} /\ dir' = HalfRemoved(dir, "backup")
    /\ Report("crashed")

Next ==
    \/ Start \/ CleanStage \/ WriteStage
    \/ Inspect \/ DropStaleBackup \/ RestoreBackup
    \/ Park \/ Install \/ RemoveBackup \/ Rollback
    \/ Crash

Spec == Init /\ [][Next]_vars

-----------------------------------------------------------------------------

(* Every variable has its type and no version is newer than the run. *)
TypeOK ==
    /\ run \in 0..MaxRuns
    /\ dir \in [Slot -> Contents(run)]
    /\ pc \in Steps \cup {"idle"}
    /\ seen \in SUBSET {"target", "backup"}
    /\ result \in Results
    /\ before \in Contents(run)

(***************************************************************************)
(* A run's report is true.  Success means this run's bundle is complete at *)
(* the target; "installed, but the previous bundle could not be removed"   *)
(* means the same; "nothing was replaced" and "the previous bundle was     *)
(* restored" mean that what could be recovered when the run began still    *)
(* can be; "exists only as the backup" and "restoring ... also failed"     *)
(* mean that it is whole in the backup and nowhere else.                   *)
(***************************************************************************)
ReportIsTrue ==
    pc = "idle" =>
        /\ result = "installed" =>
               dir["target"] = Whole(run) /\ ~Exists(dir, "backup")
        /\ result = "installed_leftover" => dir["target"] = Whole(run)
        /\ result = "not_replaced" => Recoverable(dir) = before
        /\ result = "restored" =>
               dir["target"] = before /\ ~Exists(dir, "backup")
        /\ result \in {"not_restored", "stranded"} =>
               /\ dir["backup"] = before /\ before.files = "all"
               /\ ~Exists(dir, "target")

(***************************************************************************)
(* Whatever crashes and failures happened, a target that exists is a whole *)
(* bundle, and when there is none the backup is not a half-removed one:    *)
(* the restore of a later run cannot publish a damaged bundle.             *)
(***************************************************************************)
NothingDamagedIsReachable ==
    Exists(dir, "target") \/ Exists(dir, "backup") => Recoverable(dir).files = "all"

(***************************************************************************)
(* Never deleted before the new one is installed: the abstract directory   *)
(* is what can be recovered, and every step of the code either leaves it   *)
(* alone or replaces it by the complete bundle of a later run.             *)
(***************************************************************************)
Promise == INSTANCE AtomicInstall WITH current <- Recoverable(dir)

ImplementsAtomicInstall == Promise!Spec

(***************************************************************************)
(* The inductive invariant behind the properties above: what each step of  *)
(* the run may rely on.                                                    *)
(***************************************************************************)

(* The stage is complete from the last write until it is renamed away. *)
StageReady ==
    pc \in {"inspect", "drop_stale", "restore", "park", "install"} =>
        dir["stage"] = Whole(run)

(* Which of target and backup exist when a step is about to be taken. *)
SlotsAtStep ==
    /\ pc = "clean" => Exists(dir, "stage")
    /\ pc \in {"drop_stale", "restore", "park"} => had_previous
    /\ pc \in {"drop_stale", "park"} => Exists(dir, "target")
    /\ pc \in {"drop_stale", "restore", "rollback", "cleanup"} => Exists(dir, "backup")
    /\ pc \in {"restore", "install", "rollback"} => ~Exists(dir, "target")
    /\ pc = "park" => ~Exists(dir, "backup")
    /\ pc = "install" => (had_previous <=> Exists(dir, "backup"))
    /\ pc = "cleanup" => dir["target"] = Whole(run)

(* Until the stage is renamed into place nothing recoverable has changed. *)
KeptSoFar ==
    /\ pc \notin {"idle", "cleanup"} => Recoverable(dir) = before
    /\ pc # "idle" => before.ver < run
    /\ before.files # "none" => before.files = "all"
    /\ pc = "idle" => seen = {}
    /\ Recoverable(dir).files = "none" => Recoverable(dir) = Absent

IInv ==
    /\ TypeOK
    /\ NothingDamagedIsReachable
    /\ StageReady
    /\ SlotsAtStep
    /\ KeptSoFar
    /\ ReportIsTrue
=============================================================================
