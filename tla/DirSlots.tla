------------------------------ MODULE DirSlots ------------------------------
(***************************************************************************)
(* The three sibling directories every staged replacement in data-builder  *)
(* works with, and what the std::fs calls do to them:                      *)
(*                                                                         *)
(*   target   the directory readers open (bundle, pack, evaluation pack)   *)
(*   stage    ".<name>.tmp-stage", where the new contents are written      *)
(*   backup   ".<name>.tmp-backup", where the previous target is parked    *)
(*                                                                         *)
(* A directory's contents are abstracted to the number of the run that     *)
(* wrote them and to how many of its files are there: "all" of them, only  *)
(* "some" (the writing or the removal stopped half way), or "none" when    *)
(* the path does not exist.                                                *)
(***************************************************************************)
EXTENDS Naturals

Slot == {"target", "stage", "backup"}

Contents(n) == [ver : 0..n, files : {"all", "some", "none"}]

Absent == [ver |-> 0, files |-> "none"]
Whole(v) == [ver |-> v, files |-> "all"]
Part(v) == [ver |-> v, files |-> "some"]

(* Path::exists / fs::symlink_metadata(path).is_ok() *)
Exists(d, s) == d[s].files # "none"
IsWhole(d, s) == d[s].files = "all"

(***************************************************************************)
(* rename(2) on directories: the source must exist; a destination that     *)
(* holds files is refused (ENOTEMPTY), one that is absent is not.  A       *)
(* directory that an interrupted remove_dir_all left behind may be empty,  *)
(* and then it is replaced.                                                *)
(***************************************************************************)
CanRename(d, from, to) ==
    /\ Exists(d, from)
    /\ ~IsWhole(d, to)

Renamed(d, from, to) == [d EXCEPT ![to] = d[from], ![from] = Absent]

(* remove_dir_all, run to its end or stopped half way. *)
Removed(d, s) == [d EXCEPT ![s] = Absent]
HalfRemoved(d, s) == [d EXCEPT ![s] = Part(d[s].ver)]

(***************************************************************************)
(* What a reader or a recovery can still get hold of: the target, and the  *)
(* backup when there is no target.                                         *)
(***************************************************************************)
Recoverable(d) == IF Exists(d, "target") THEN d["target"] ELSE d["backup"]
=============================================================================
