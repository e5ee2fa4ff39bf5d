---------------------------- MODULE AtomicInstall ----------------------------
(***************************************************************************)
(* What a failure-safe replacement of a published directory promises: at   *)
(* every moment one complete directory can be recovered, and the only      *)
(* change it ever undergoes is to be replaced, in one step, by a complete  *)
(* directory that a later run wrote.  It is never lost, never damaged and  *)
(* never goes back to an older one.                                        *)
(***************************************************************************)
EXTENDS DirSlots

CONSTANT MaxRuns   \* bound on the number of runs

VARIABLE current   \* the directory that can be recovered; Absent before the first

Init == current = Absent

Replace ==
    \E v \in 1..MaxRuns :
        /\ v > current.ver
        /\ current' = Whole(v)

Next == Replace

Spec == Init /\ [][Next]_current
=============================================================================
