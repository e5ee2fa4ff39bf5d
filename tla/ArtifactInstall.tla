--------------------------- MODULE ArtifactInstall ---------------------------
(***************************************************************************)
(* install_artifact_set of data-builder/src/pack/evaluation.rs: the swap   *)
(* that writes an evaluation pack.  It looks like the release one, but the *)
(* stage and the backup of an earlier run are cleaned up first, and        *)
(* `cleanup` ignores the error of remove_dir_all.                          *)
(*                                                                         *)
(* One run at a time; every call may fail and the run may be killed.       *)
(***************************************************************************)
EXTENDS DirSlots

CONSTANT MaxRuns   \* bound: how many times the command is started

VARIABLES
    dir,       \* contents of out_dir ("target"), stage and backup
    pc,        \* the call the current run makes next; "idle" between runs
    run,       \* number of the current (or last) run
    result,    \* what it reported
    before     \* history: out_dir when the run began

vars == <<dir, pc, run, result, before>>

Init ==
    /\ dir = [s \in Slot |-> Absent]
    /\ pc = "idle"
    /\ run = 0
    /\ result = "none"
    /\ before = Absent

At(step) == pc = step
Goto(step) == pc' = step /\ UNCHANGED <<run, result, before>>
Report(r) == pc' = "idle" /\ result' = r /\ UNCHANGED <<run, before>>

(* The closure `cleanup`: the path is gone, or half gone and nobody knows. *)
Cleanup(s) ==
    \/ dir' = Removed(dir, s)
    \/ Exists(dir, s) /\ dir' = HalfRemoved(dir, s)

Start ==
    /\ At("idle")
    /\ run < MaxRuns
    /\ run' = run + 1
    /\ pc' = "clean_stage"
    /\ result' = "none"
    /\ before' = dir["target"]
    /\ UNCHANGED dir

CleanStage == At("clean_stage") /\ Cleanup("stage") /\ Goto("clean_backup")

CleanBackup == At("clean_backup") /\ Cleanup("backup") /\ Goto("write")

(* Files are written one by one and read back; a leftover stage is only    *)
(* completed by the files of this run.                                     *)
WriteStage ==
    /\ At("write")
    /\ \/ dir' = [dir EXCEPT !["stage"] = Part(run)] /\ Goto("write")
       \/ dir' = [dir EXCEPT !["stage"] = Whole(run)] /\ Goto("park")
       \/ Cleanup("stage") /\ Report("unchanged")

Park ==
    /\ At("park")
    /\ \/ ~Exists(dir, "target") /\ UNCHANGED dir /\ Goto("install")
       \/ /\ CanRename(dir, "target", "backup")
          /\ dir' = Renamed(dir, "target", "backup")
          /\ Goto("install")
       \/ Exists(dir, "target") /\ Cleanup("stage") /\ Report("unchanged")

Install ==
    /\ At("install")
    /\ \/ /\ CanRename(dir, "stage", "target")
          /\ dir' = Renamed(dir, "stage", "target")
          /\ Goto("drop_backup")
       \/ UNCHANGED dir /\ Goto(IF Exists(dir, "backup") THEN "rollback" ELSE "give_up")

DropBackup == At("drop_backup") /\ Cleanup("backup") /\ Report("installed")

Rollback ==
    /\ At("rollback")
    /\ \/ /\ CanRename(dir, "backup", "target")
          /\ dir' = Renamed(dir, "backup", "target")
          /\ Goto("give_up")
       \/ UNCHANGED dir /\ Report("rollback_failed")

GiveUp == At("give_up") /\ Cleanup("stage") /\ Report("unchanged")

Crash ==
    /\ pc # "idle"
    /\ \/ dir' = dir
       \/ pc \in {"clean_stage", "give_up"} /\ Exists(dir, "stage") /\ dir' = HalfRemoved(dir, "stage")
       \/ pc \in {"clean_backup", "drop_backup"} /\ Exists(dir, "backup") /\ dir' = HalfRemoved(dir, "backup")
    /\ Report("crashed")

Next ==
    \/ Start \/ CleanStage \/ CleanBackup \/ WriteStage
    \/ Park \/ Install \/ DropBackup \/ Rollback \/ GiveUp \/ Crash

Spec == Init /\ [][Next]_vars

-----------------------------------------------------------------------------

(***************************************************************************)
(* The doc comment of install_artifact_set: "Replaces `out_dir` with       *)
(* exactly `files`, or leaves it exactly as it was."  A run that returns   *)
(* "not installed, out_dir is unchanged" left out_dir as it found it.      *)
(***************************************************************************)
UnchangedMeansUnchanged ==
    pc = "idle" /\ result = "unchanged" => dir["target"] = before
=============================================================================
