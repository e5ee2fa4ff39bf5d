------------------------------ MODULE PackBuild ------------------------------
(***************************************************************************)
(* build_pack of data-builder/src/pack/builder.rs: several build-pack      *)
(* processes for the same pack, each of which takes data/pack-builds.lock, *)
(* assembles the pack in memory, writes the stage directory, swaps it with *)
(* the installed pack and releases the lock.                               *)
(*                                                                         *)
(* The swap is the one most of data-builder uses (the importer, the        *)
(* partitions, the reports, the review queues and merger): unlike a        *)
(* release (ReleaseInstall) it removes a backup it finds before it knows   *)
(* whether that backup is the only copy.                                   *)
(*                                                                         *)
(* Each rename, removal and write may fail and a process may be killed     *)
(* between two file-system calls; a new build may then be started.         *)
(***************************************************************************)
EXTENDS LockFile, DirSlots

CONSTANT MaxRuns        \* bound: how many builds are started

ASSUME MaxRunsAssumption == MaxRuns \in Nat

VARIABLES
    dir,        \* contents of the pack directory, its stage and its backup
    run,        \* number of builds started
    step,       \* the call a process inside the lock makes next
    ver,        \* the number of the build a process is running
    outcome,    \* what its last build came to
    before,     \* history: the pack directory when the build began
    overlapped, \* history: processes that were inside together with another
    stranded    \* history: builds that left the previous pack in the backup

packVars == <<dir, run, step, ver, outcome, before, overlapped, stranded>>
vars == <<lockVars, packVars>>

Steps == {"none", "assemble", "clean", "create", "write", "drop_backup",
          "park", "install", "cleanup", "rollback", "finish"}

Outcomes == {"none", "built", "kept", "stranded", "unlock_failed", "killed"}

Init ==
    /\ LockInit
    /\ dir = [s \in Slot |-> Absent]
    /\ run = 0
    /\ step = [p \in Proc |-> "none"]
    /\ ver = [p \in Proc |-> 0]
    /\ outcome = [p \in Proc |-> "none"]
    /\ before = [p \in Proc |-> Absent]
    /\ overlapped = {}
    /\ stranded = {}

At(p, s) == Inside(p) /\ step[p] = s

(* The build goes on with its next call. *)
Then(p, s) ==
    /\ step' = [step EXCEPT ![p] = s]
    /\ UNCHANGED <<lockVars, outcome, stranded>>

(* An error return: the lock guard is dropped on the way out. *)
Fail(p, o) ==
    /\ Bail(p)
    /\ step' = [step EXCEPT ![p] = "none"]
    /\ outcome' = [outcome EXCEPT ![p] = o]
    /\ stranded' = IF o = "stranded" THEN stranded \cup {ver[p]} ELSE stranded

Unstarted == UNCHANGED <<run, ver, before, overlapped>>

-----------------------------------------------------------------------------

(* LockFileGuard::acquire. *)
Begin(p) ==
    /\ run < MaxRuns
    /\ Acquire(p)
    /\ run' = run + 1
    /\ ver' = [ver EXCEPT ![p] = run + 1]
    /\ step' = [step EXCEPT ![p] = "assemble"]
    /\ outcome' = [outcome EXCEPT ![p] = "none"]
    /\ before' = [before EXCEPT ![p] = dir["target"]]
    /\ LET others == {q \in Proc : Inside(q)}
       IN  overlapped' = IF others = {} THEN overlapped ELSE overlapped \cup others \cup {p}
    /\ UNCHANGED <<dir, stranded>>

(* Policy and payload are read and the artifacts assembled in memory. *)
Assemble(p) ==
    /\ At(p, "assemble")
    /\ Then(p, IF Exists(dir, "stage") THEN "clean" ELSE "create") \/ Fail(p, "kept")
    /\ Unstarted /\ UNCHANGED dir

CleanStage(p) ==
    /\ At(p, "clean")
    /\ \/ dir' = Removed(dir, "stage") /\ Then(p, "create")
       \/ /\ dir' = IF Exists(dir, "stage") THEN HalfRemoved(dir, "stage") ELSE dir
          /\ Fail(p, "kept")
    /\ Unstarted

(* create_dir_all: no error when the directory is already there. *)
CreateStage(p) ==
    /\ At(p, "create")
    /\ \/ /\ dir' = IF Exists(dir, "stage") THEN dir ELSE [dir EXCEPT !["stage"] = Part(ver[p])]
          /\ Then(p, "write")
       \/ UNCHANGED dir /\ Fail(p, "kept")
    /\ Unstarted

(* Mutant: the result of a write is ignored. *)
WriteStageUnchecked(p) ==
    /\ At(p, "write")
    /\ Exists(dir, "stage")
    /\ dir' = [dir EXCEPT !["stage"] = Whole(ver[p])] \/ UNCHANGED dir
    /\ Then(p, "drop_backup")
    /\ Unstarted

(* Mutant: the stage already counts as the next build's. *)
WriteStageAhead(p) ==
    /\ At(p, "write")
    /\ Exists(dir, "stage")
    /\ dir' = [dir EXCEPT !["stage"] = Whole(ver[p] + 1)]
    /\ Then(p, "drop_backup")
    /\ Unstarted

(* The artifacts are written one by one.  The set is whole when all of     *)
(* them are this build's; in another build's stage the result is a mix.    *)
WriteStage(p) ==
    /\ At(p, "write")
    /\ \/ /\ Exists(dir, "stage")
          /\ dir' = IF dir["stage"] = Part(ver[p])
                      THEN [dir EXCEPT !["stage"] = Whole(ver[p])]
                      ELSE HalfRemoved(dir, "stage")
          /\ Then(p, "drop_backup")
       \/ UNCHANGED dir /\ Fail(p, "kept")
    /\ Unstarted

(* A backup that is found is removed, whatever it holds. *)
DropBackup(p) ==
    /\ At(p, "drop_backup")
    /\ \/ dir' = Removed(dir, "backup") /\ Then(p, "park")
       \/ Exists(dir, "backup") /\ dir' = HalfRemoved(dir, "backup") /\ Fail(p, "kept")
    /\ Unstarted

(* Mutant: the previous pack is removed, not renamed. *)
ParkByRemoval(p) ==
    /\ At(p, "park")
    /\ dir' = Removed(dir, "target")
    /\ Then(p, "install")
    /\ Unstarted

Park(p) ==
    /\ At(p, "park")
    /\ \/ ~Exists(dir, "target") /\ UNCHANGED dir /\ Then(p, "install")
       \/ /\ CanRename(dir, "target", "backup")
          /\ dir' = Renamed(dir, "target", "backup")
          /\ Then(p, "install")
       \/ Exists(dir, "target") /\ UNCHANGED dir /\ Fail(p, "kept")
    /\ Unstarted

Install(p) ==
    /\ At(p, "install")
    /\ \/ /\ CanRename(dir, "stage", "target")
          /\ dir' = Renamed(dir, "stage", "target")
          /\ Then(p, IF Exists(dir, "backup") THEN "cleanup" ELSE "finish")
       \/ /\ UNCHANGED dir
          /\ IF Exists(dir, "backup") THEN Then(p, "rollback") ELSE Fail(p, "kept")
    /\ Unstarted

(* A backup that cannot be removed is only a warning. *)
RemoveBackup(p) ==
    /\ At(p, "cleanup")
    /\ \/ dir' = Removed(dir, "backup")
       \/ Exists(dir, "backup") /\ dir' = HalfRemoved(dir, "backup")
    /\ Then(p, "finish")
    /\ Unstarted

(* Mutant: a failed installation returns without renaming the backup back. *)
RollbackForgotten(p) ==
    /\ At(p, "rollback")
    /\ UNCHANGED dir
    /\ Fail(p, "kept")
    /\ Unstarted

Rollback(p) ==
    /\ At(p, "rollback")
    /\ \/ /\ CanRename(dir, "backup", "target")
          /\ dir' = Renamed(dir, "backup", "target")
          /\ Fail(p, "kept")
       \/ UNCHANGED dir /\ Fail(p, "stranded")
    /\ Unstarted

(* The pack is replaced: lock.release()?.  A lock file that is gone already *)
(* is no error.                                                             *)
Finish(p) ==
    /\ At(p, "finish")
    /\ ReleaseCheck(p)
    /\ step' = [step EXCEPT ![p] = "none"]
    /\ outcome' = [outcome EXCEPT ![p] = IF PathExists THEN @ ELSE "built"]
    /\ Unstarted /\ UNCHANGED <<dir, stranded>>

(* The rest of release: when the lock file cannot be removed the build     *)
(* returns an error, although the pack has been replaced.                  *)
Release(p) ==
    /\ \/ ReleaseRemove(p) /\ outcome' = [outcome EXCEPT ![p] = "built"]
       \/ ReleaseFails(p) /\ outcome' = [outcome EXCEPT ![p] = "unlock_failed"]
    /\ Unstarted /\ UNCHANGED <<dir, step, stranded>>

(* Drop of the guard. *)
Unlock(p) ==
    /\ DropCheck(p) \/ DropRemove(p)
    /\ UNCHANGED packVars

(* The process is killed, possibly half way through a removal. *)
Die(p) ==
    /\ Kill(p)
    /\ \/ UNCHANGED dir
       \/ At(p, "clean") /\ Exists(dir, "stage") /\ dir' = HalfRemoved(dir, "stage")
       \/ /\ At(p, "drop_backup") \/ At(p, "cleanup")
          /\ Exists(dir, "backup") /\ dir' = HalfRemoved(dir, "backup")
    /\ step' = [step EXCEPT ![p] = "none"]
    /\ outcome' = [outcome EXCEPT ![p] = IF Inside(p) \/ phase[p] = "release" THEN "killed" ELSE @]
    /\ stranded' = IF step[p] \in {"install", "rollback"} /\ Exists(dir, "backup")
                     THEN stranded \cup {ver[p]} ELSE stranded
    /\ Unstarted

OperatorClearsLock == ClearStale /\ UNCHANGED packVars

BuildStep(p) ==
    \/ Assemble(p) \/ CleanStage(p) \/ CreateStage(p) \/ WriteStage(p)
    \/ DropBackup(p) \/ Park(p) \/ Install(p) \/ RemoveBackup(p) \/ Rollback(p)
    \/ Finish(p) \/ Release(p) \/ Unlock(p)

Next ==
    \/ \E p \in Proc : Begin(p) \/ BuildStep(p) \/ Die(p)
    \/ OperatorClearsLock

(* A build that runs keeps running: the code waits for nothing. *)
Fairness == \A p \in Proc : WF_vars(BuildStep(p))

Spec == Init /\ [][Next]_vars /\ Fairness

-----------------------------------------------------------------------------

TypeOK ==
    /\ LockTypeOK
    /\ run \in 0..MaxRuns
    /\ dir \in [Slot -> Contents(run)]
    /\ step \in [Proc -> Steps]
    /\ ver \in [Proc -> 0..run]
    /\ outcome \in [Proc -> Outcomes]
    /\ before \in [Proc -> Contents(run)]
    /\ overlapped \in SUBSET Proc
    /\ stranded \in SUBSET (0..run)

(***************************************************************************)
(* As long as no two builds were ever inside together, the pack directory, *)
(* when it is there, holds one build's complete set of artifacts, whatever *)
(* was killed or failed before: a reader never opens a mix of two builds   *)
(* or half of one.                                                         *)
(***************************************************************************)
PackIsWhole ==
    overlapped = {} /\ Exists(dir, "target") => IsWhole(dir, "target")

(***************************************************************************)
(* A build that reports an error leaves the pack directory as it found it, *)
(* even when the directory was missing because an earlier build had been   *)
(* killed half way.  Two errors are otherwise: "rollback also failed", and *)
(* the error of release at the end, which comes after the whole new pack   *)
(* has been installed (and is still there, unless another process removed  *)
(* this build's lock file and so let a third one in).                      *)
(***************************************************************************)
FailureKeepsPack ==
    [][\A p \in Proc :
          outcome[p] = "none" /\ overlapped = {} =>
              /\ outcome'[p] = "kept" => dir'["target"] = before[p]
              /\ outcome'[p] = "unlock_failed" /\ p \notin robbed
                     => dir'["target"] = Whole(ver[p])]_vars

(* The build got as far as replacing the pack. *)
Installed(p) == phase[p] = "release" \/ outcome[p] \in {"built", "unlock_failed"}

(***************************************************************************)
(* The last copy of a built pack disappears only after an earlier build    *)
(* was killed between the two renames, or failed both the installation and *)
(* the rollback; one failure or one kill alone never costs the pack.       *)
(***************************************************************************)
LossNeedsStranding ==
    LET builtBefore == \E p \in Proc : Installed(p) \/ before[p] # Absent
        copy == IsWhole(dir, "target") \/ IsWhole(dir, "backup")
    IN  builtBefore /\ ~copy /\ overlapped = {} => stranded # {}

(***************************************************************************)
(* Every return path, success or error, gives the lock back: the file of a *)
(* build eventually goes unless the build was killed or the OS refused.    *)
(***************************************************************************)
LockIsReturned ==
    \A p \in Proc : file = p ~> (file # p \/ p \in abandoned)

-----------------------------------------------------------------------------
(***************************************************************************)
(* The inductive invariant behind PackIsWhole and FailureKeepsPack.  It    *)
(* speaks of the build inside the lock as long as no two overlapped.       *)
(***************************************************************************)

(* No directory that does not exist has a version. *)
AbsentHasNoVersion == \A s \in Slot : ~Exists(dir, s) => dir[s] = Absent

OneInside ==
    overlapped = {} => \A p, q \in Proc : Inside(p) /\ Inside(q) => p = q

(* The stage is this build's, and complete from the last write to the rename. *)
StageIsOurs(p) ==
    /\ step[p] = "create" => ~Exists(dir, "stage")
    /\ step[p] = "write" => dir["stage"] = Part(ver[p])
    /\ step[p] \in {"drop_backup", "park", "install"} => dir["stage"] = Whole(ver[p])

(* Where the pack that the build found is, at each call. *)
PackKept(p) ==
    /\ step[p] \in {"assemble", "clean", "create", "write", "drop_backup", "park"}
           => dir["target"] = before[p]
    /\ step[p] = "park" => ~Exists(dir, "backup")
    /\ step[p] \in {"install", "rollback"}
           => ~Exists(dir, "target") /\ dir["backup"] = before[p]
    /\ step[p] \in {"cleanup", "finish"} => dir["target"] = Whole(ver[p])

(* What the build inside, alone, relies on at its next call. *)
BuildKnows ==
    overlapped = {} =>
        \A p \in Proc : Inside(p) =>
            /\ before[p] = Absent \/ before[p].files = "all"
            /\ StageIsOurs(p)
            /\ PackKept(p)

(* While a build that nobody robbed is in release, its file still keeps    *)
(* every other build out, and its pack is the installed one.               *)
ReleaseKnows ==
    \A p \in Proc : phase[p] = "release" /\ p \notin robbed =>
        /\ file = p
        /\ overlapped = {} =>
              /\ dir["target"] = Whole(ver[p])
              /\ \A q \in Proc : ~Inside(q)

IInv ==
    /\ TypeOK
    /\ HolderOwnsFile
    /\ AbsentHasNoVersion
    /\ OneInside
    /\ ReleaseKnows
    /\ PackIsWhole
    /\ BuildKnows
=============================================================================
