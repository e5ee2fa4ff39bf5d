------------------------------ MODULE LockFile ------------------------------
(***************************************************************************)
(* LockFileGuard of data-builder/src/corpus/importer.rs: a lock held by    *)
(* the existence of a file, used by the importer, the pack builder, the    *)
(* review merger and queues and the evaluation commands, each a process    *)
(* of its own.                                                             *)
(*                                                                         *)
(* acquire creates the file (create_new: it fails when the file exists).   *)
(* A guard that is dropped looks whether the path exists and removes it.   *)
(* release(self) does the same by hand, and then, because self is dropped  *)
(* when release returns, Drop looks and removes once more.                 *)
(***************************************************************************)
EXTENDS FiniteSets

CONSTANTS
    Proc,      \* the processes that use this lock path
    Nobody     \* the path does not exist

ASSUME NobodyAssumption == Nobody \notin Proc

VARIABLES
    file,      \* the process that created the file at the path, or Nobody
    phase,     \* where each process is in the life of its guard
    robbed,    \* history: processes whose file another process removed
    abandoned  \* history: processes whose guard ended (killed, or the OS refused)
               \*   without removing a file that was there

lockVars == <<file, phase, robbed, abandoned>>

Phases == {"out", "inside", "release", "drop", "drop_remove"}

LockTypeOK ==
    /\ file \in Proc \cup {Nobody}
    /\ phase \in [Proc -> Phases]
    /\ robbed \in SUBSET Proc
    /\ abandoned \in SUBSET Proc

LockInit ==
    /\ file = Nobody
    /\ phase = [p \in Proc |-> "out"]
    /\ robbed = {}
    /\ abandoned = {}

Move(p, from, to) == phase[p] = from /\ phase' = [phase EXCEPT ![p] = to]

PathExists == file # Nobody

(* The process that owned the removed file is robbed if it is another one. *)
RemoveFile(p) ==
    /\ PathExists
    /\ file' = Nobody
    /\ robbed' = robbed \cup ({file} \ {p})

-----------------------------------------------------------------------------

(* Mutant: File::create instead of create_new. *)
AcquireOverExisting(p) ==
    /\ Move(p, "out", "inside")
    /\ file' = p
    /\ robbed' = robbed \ {p}
    /\ abandoned' = abandoned \ {p}

(* acquire; when the path exists it returns an error and changes nothing. *)
Acquire(p) ==
    /\ ~PathExists
    /\ Move(p, "out", "inside")
    /\ file' = p
    /\ robbed' = robbed \ {p}
    /\ abandoned' = abandoned \ {p}

(* release: the existence check ... *)
ReleaseCheck(p) ==
    /\ Move(p, "inside", IF PathExists THEN "release" ELSE "drop")
    /\ UNCHANGED <<file, robbed, abandoned>>

(* ... and the removal.  The guard is dropped when release returns. *)
ReleaseRemove(p) ==
    /\ Move(p, "release", "drop")
    /\ RemoveFile(p)
    /\ UNCHANGED abandoned

(* The removal fails, the path being gone or the OS saying no: release     *)
(* returns an error, and the guard is dropped all the same.                *)
ReleaseFails(p) ==
    /\ Move(p, "release", "drop")
    /\ UNCHANGED <<file, robbed, abandoned>>

(* Mutant: the guard is forgotten on the error path, so Drop never runs. *)
BailWithoutDrop(p) ==
    /\ Move(p, "inside", "out")
    /\ UNCHANGED <<file, robbed, abandoned>>

(* An early return with an error: the guard is dropped without release. *)
Bail(p) ==
    /\ Move(p, "inside", "drop")
    /\ UNCHANGED <<file, robbed, abandoned>>

(* Drop: the existence check ... *)
DropCheck(p) ==
    /\ Move(p, "drop", IF PathExists THEN "drop_remove" ELSE "out")
    /\ UNCHANGED <<file, robbed, abandoned>>

(* ... and the removal; a failure is only a warning. *)
DropRemove(p) ==
    /\ Move(p, "drop_remove", "out")
    /\ \/ RemoveFile(p) /\ UNCHANGED abandoned
       \/ /\ abandoned' = abandoned \cup {p}
          /\ UNCHANGED <<file, robbed>>

(* The process is killed: nothing removes its file. *)
Kill(p) ==
    /\ phase[p] # "out"
    /\ phase' = [phase EXCEPT ![p] = "out"]
    /\ abandoned' = abandoned \cup {p}
    /\ UNCHANGED <<file, robbed>>

(* The operator removes the file of a process that is gone; nothing in the *)
(* code ever does.                                                         *)
ClearStale ==
    /\ PathExists
    /\ phase[file] = "out"
    /\ file' = Nobody
    /\ UNCHANGED <<phase, robbed, abandoned>>

GuardStep(p) ==
    \/ ReleaseCheck(p) \/ ReleaseRemove(p) \/ ReleaseFails(p)
    \/ Bail(p) \/ DropCheck(p) \/ DropRemove(p)

LockNext ==
    \/ \E p \in Proc : Acquire(p) \/ GuardStep(p) \/ Kill(p)
    \/ ClearStale

LockSpec == LockInit /\ [][LockNext]_lockVars

-----------------------------------------------------------------------------

Inside(p) == phase[p] = "inside"

(***************************************************************************)
(* What the lock is for, and what the test                                 *)
(* test_importer_lock_race_prevention expects of it ("Second lock          *)
(* acquisition must fail atomically"): while one process holds the lock no *)
(* other gets it.  The removal by Drop after release breaks it.            *)
(***************************************************************************)
MutualExclusion ==
    \A p, q \in Proc : Inside(p) /\ Inside(q) => p = q

(***************************************************************************)
(* What does hold: a process that is inside has its file at the path, so   *)
(* nobody can create one, until another process has removed it.  Kills and *)
(* errors alone never let two in: a file left behind keeps everyone out.   *)
(***************************************************************************)
HolderOwnsFile ==
    \A p \in Proc : Inside(p) => file = p \/ p \in robbed

OverlapNeedsRobbery ==
    \A p, q \in Proc : Inside(p) /\ Inside(q) /\ p # q => {p, q} \cap robbed # {}
=============================================================================
