------------------------ MODULE ReleaseInstallProofs ------------------------
(***************************************************************************)
(* Proofs about ReleaseInstall for every number of runs: the inductive     *)
(* invariant, the truth of every report, and that each step of             *)
(* install_directory_with is a step (or a stutter) of AtomicInstall.       *)
(***************************************************************************)
EXTENDS ReleaseInstall, TLAPS

USE DEF Slot, Contents, Absent, Whole, Part, Exists, IsWhole

(* What any step does to the typed variables other than dir. *)
LEMMA StepTypes ==
    ASSUME TypeOK, [Next]_vars
    PROVE  /\ run' \in 0..MaxRuns /\ run <= run'
           /\ pc' \in Steps \cup {"idle"}
           /\ seen' \in SUBSET {"target", "backup"}
           /\ result' \in Results
           /\ before' \in Contents(run')
<1> USE MaxRunsAssumption DEF TypeOK, Next, vars, Start, CleanStage, WriteStage, Inspect,
     DropStaleBackup, RestoreBackup, Park, Install, RemoveBackup, Rollback, Crash,
     At, Goto, Report
<1>1. run' \in 0..MaxRuns /\ run <= run'
  OBVIOUS
<1>2. pc' \in Steps \cup {"idle"}
  BY DEF Steps
<1>3. seen' \in SUBSET {"target", "backup"}
  OBVIOUS
<1>4. result' \in Results
  BY DEF Results
<1>5. before' \in Contents(run')
  BY DEF Recoverable
<1>6. QED
  BY <1>1, <1>2, <1>3, <1>4, <1>5

(* The slots stay typed. *)
LEMMA StepDir ==
    ASSUME TypeOK, [Next]_vars
    PROVE  dir' \in [Slot -> Contents(run')]
<1>1. run \in Nat /\ dir \in [Slot -> Contents(run)]
  BY MaxRunsAssumption DEF TypeOK
<1>2. \/ UNCHANGED <<dir, run>>
      \/ dir' = dir /\ run' = run + 1
      \/ run' = run /\ \E s \in Slot : dir' = Removed(dir, s) \/ dir' = HalfRemoved(dir, s)
      \/ run' = run /\ \E s, t \in Slot : s # t /\ dir' = Renamed(dir, s, t)
      \/ run' = run /\ run >= 0 /\ \E c \in {Part(run), Whole(run)} :
                                dir' = [dir EXCEPT !["stage"] = c]
  BY <1>1 DEF Next, vars, Start, CleanStage, WriteStage, Inspect,
     DropStaleBackup, RestoreBackup, Park, Install, RemoveBackup, Rollback, Crash,
     At, Goto, Report
<1>3. CASE dir' = dir /\ run' = run + 1
  BY <1>1, <1>3
<1>4. CASE run' = run /\ \E s \in Slot : dir' = Removed(dir, s) \/ dir' = HalfRemoved(dir, s)
  BY <1>1, <1>4 DEF Removed, HalfRemoved
<1>5. CASE run' = run /\ \E s, t \in Slot : s # t /\ dir' = Renamed(dir, s, t)
  BY <1>1, <1>5 DEF Renamed
<1>6. CASE run' = run /\ \E c \in {Part(run), Whole(run)} : dir' = [dir EXCEPT !["stage"] = c]
  BY <1>1, <1>6
<1>7. QED
  BY <1>1, <1>2, <1>3, <1>4, <1>5, <1>6

(* The inductive invariant holds at the start... *)
LEMMA InitIInv == Init => IInv
  BY MaxRunsAssumption DEF Init, IInv, TypeOK, NothingDamagedIsReachable,
     StageReady, SlotsAtStep, KeptSoFar, ReportIsTrue, Recoverable, Steps, Results, had_previous

(* ... and every step of a run, failures and kills included, keeps it. *)
LEMMA StepIInv == IInv /\ [Next]_vars => IInv'
<1> SUFFICES ASSUME IInv, [Next]_vars
             PROVE  IInv'
  OBVIOUS
<1> DEFINE Rest == /\ NothingDamagedIsReachable /\ StageReady /\ SlotsAtStep
                   /\ KeptSoFar /\ ReportIsTrue
<1>a. TypeOK'
  BY StepTypes, StepDir DEF IInv, TypeOK
<1>b. /\ run \in Nat /\ dir \in [Slot -> Contents(run)]
      /\ run' \in Nat /\ dir' \in [Slot -> Contents(run')]
  BY <1>a, MaxRunsAssumption DEF IInv, TypeOK
<1>c. Rest
  BY DEF IInv
<1> SUFFICES Rest'
  BY <1>a DEF IInv
<1> USE <1>b, <1>c DEF NothingDamagedIsReachable, StageReady, SlotsAtStep, KeptSoFar,
     ReportIsTrue, Recoverable, had_previous, At, Goto, Report, CanRename
<1>1. CASE Start
  BY <1>1 DEF Start
<1>2. CASE CleanStage
  BY <1>2 DEF CleanStage, Removed, HalfRemoved
<1>3. CASE WriteStage
  BY <1>3 DEF WriteStage
<1>4. CASE Inspect
  BY <1>4 DEF Inspect
<1>5. CASE DropStaleBackup
  BY <1>5 DEF DropStaleBackup, Removed, HalfRemoved
<1>6. CASE RestoreBackup
  BY <1>6 DEF RestoreBackup, Renamed
<1>7. CASE Park
  BY <1>7 DEF Park, Renamed
<1>8. CASE Install
  BY <1>8 DEF Install, Renamed
<1>9. CASE RemoveBackup
  BY <1>9 DEF RemoveBackup, Removed, HalfRemoved
<1>10. CASE Rollback
  BY <1>10 DEF Rollback, Renamed
<1>11. CASE Crash
  BY <1>11 DEF Crash, HalfRemoved
<1>12. CASE UNCHANGED vars
  BY <1>12 DEF vars
<1>13. QED
  BY <1>1, <1>2, <1>3, <1>4, <1>5, <1>6, <1>7, <1>8, <1>9, <1>10, <1>11, <1>12 DEF Next

(***************************************************************************)
(* The variables stay well-typed: no slot ever holds a version newer than  *)
(* the run in progress (release.rs, install_directory_with).               *)
(***************************************************************************)
THEOREM TypeCorrect == Spec => []TypeOK
<1>1. IInv => TypeOK
  BY DEF IInv
<1>2. QED
  BY <1>1, InitIInv, StepIInv, PTL DEF Spec

(***************************************************************************)
(* The error and success messages of install_directory_with are true of    *)
(* the directories it leaves, whatever earlier runs left behind.           *)
(***************************************************************************)
THEOREM ReportsAreTrue == Spec => []ReportIsTrue
<1>1. IInv => ReportIsTrue
  BY DEF IInv
<1>2. QED
  BY <1>1, InitIInv, StepIInv, PTL DEF Spec

(***************************************************************************)
(* No sequence of failed and killed runs makes a partly written or partly  *)
(* removed directory the one that readers open or that recovery restores.  *)
(***************************************************************************)
THEOREM NothingDamaged == Spec => []NothingDamagedIsReachable
<1>1. IInv => NothingDamagedIsReachable
  BY DEF IInv
<1>2. QED
  BY <1>1, InitIInv, StepIInv, PTL DEF Spec

(* A step of the code replaces the recoverable bundle by this run's        *)
(* complete one, or leaves it as it is.                                    *)
LEMMA StepRefines == IInv /\ [Next]_vars => [Promise!Next]_(Recoverable(dir))
<1> SUFFICES ASSUME IInv, [Next]_vars
             PROVE  Promise!Next \/ UNCHANGED Recoverable(dir)
  OBVIOUS
<1>a. run \in 0..MaxRuns /\ MaxRuns \in Nat /\ dir \in [Slot -> Contents(run)]
  BY MaxRunsAssumption DEF IInv, TypeOK
<1>b. SlotsAtStep /\ StageReady /\ KeptSoFar
  BY DEF IInv
<1> USE <1>a, <1>b DEF SlotsAtStep, Recoverable, At
<1>1. CASE Install
  <2>1. Recoverable(dir) = before /\ before.ver < run /\ dir["stage"] = Whole(run)
    BY <1>1 DEF Install, KeptSoFar, StageReady
  <2>2. CASE dir' = Renamed(dir, "stage", "target")
    <3>1. Recoverable(dir') = Whole(run)
      BY <2>1, <2>2 DEF Renamed
    <3>2. run \in 1..MaxRuns /\ run > Recoverable(dir).ver
      BY <2>1
    <3>3. QED
      BY <3>1, <3>2 DEF Promise!Next, Promise!Replace, Promise!Whole
  <2>3. QED
    BY <1>1, <2>2 DEF Install
<1>2. CASE Start \/ CleanStage \/ WriteStage
  BY <1>2 DEF Start, CleanStage, WriteStage, Removed, HalfRemoved
<1>3. CASE Inspect \/ RestoreBackup \/ Park \/ Rollback
  BY <1>3 DEF Inspect, RestoreBackup, Park, Rollback, Renamed
<1>4. CASE DropStaleBackup \/ RemoveBackup
  BY <1>4 DEF DropStaleBackup, RemoveBackup, Removed, HalfRemoved
<1>5. CASE Crash
  BY <1>5 DEF Crash, HalfRemoved
<1>6. CASE UNCHANGED vars
  BY <1>6 DEF vars
<1>7. QED
  BY <1>1, <1>2, <1>3, <1>4, <1>5, <1>6 DEF Next

(***************************************************************************)
(* install_directory_with keeps the promise of its doc comment: "The       *)
(* previous complete release is never deleted before the new one is        *)
(* installed, including when a prior run left it only in `backup`."        *)
(***************************************************************************)
THEOREM NeverLost == Spec => ImplementsAtomicInstall
<1>1. Init => Promise!Init
  BY DEF Init, Recoverable, Promise!Init, Promise!Absent
<1>2. QED
  BY <1>1, InitIInv, StepIInv, StepRefines, PTL
     DEF Spec, ImplementsAtomicInstall, Promise!Spec
=============================================================================
