--------------------------- MODULE PackBuildProofs ---------------------------
(***************************************************************************)
(* Proofs about LockFile and PackBuild for any set of processes and any    *)
(* number of builds.  The lock guard lets two processes in together only   *)
(* by robbery; a build's steps are steps of the guard, so builds overlap   *)
(* only by robbery; and as long as none overlap, the pack directory is one *)
(* build's whole set of artifacts and a failed build leaves it alone.      *)
(***************************************************************************)
EXTENDS PackBuild, TLAPS

(***************************************************************************)
(* The lock guard by itself, for any set of processes.                     *)
(***************************************************************************)
LInv == LockTypeOK /\ HolderOwnsFile

LEMMA LockInitInv == LockInit => LInv
  BY DEF LockInit, LInv, LockTypeOK, HolderOwnsFile, Phases, Inside

LEMMA LockStepInv == LInv /\ [LockNext]_lockVars => LInv'
<1> SUFFICES ASSUME LInv, [LockNext]_lockVars
             PROVE  LInv'
  OBVIOUS
<1> USE NobodyAssumption DEF LInv, LockTypeOK, HolderOwnsFile, Phases, Inside, Move,
     PathExists, RemoveFile
<1>1. ASSUME NEW p \in Proc, Acquire(p)
      PROVE  LInv'
  BY <1>1 DEF Acquire
<1>2. ASSUME NEW p \in Proc, ReleaseCheck(p) \/ Bail(p) \/ DropCheck(p)
      PROVE  LInv'
  BY <1>2 DEF ReleaseCheck, Bail, DropCheck
<1>3. ASSUME NEW p \in Proc, ReleaseRemove(p) \/ ReleaseFails(p) \/ DropRemove(p)
      PROVE  LInv'
  BY <1>3 DEF ReleaseRemove, ReleaseFails, DropRemove
<1>4. ASSUME NEW p \in Proc, Kill(p)
      PROVE  LInv'
  BY <1>4 DEF Kill
<1>5. CASE ClearStale
  BY <1>5 DEF ClearStale
<1>6. CASE UNCHANGED lockVars
  BY <1>6 DEF lockVars
<1>7. QED
  BY <1>1, <1>2, <1>3, <1>4, <1>5, <1>6 DEF LockNext, GuardStep

(***************************************************************************)
(* A process inside the lock has its file at the path unless another one   *)
(* removed it (importer.rs, LockFileGuard::acquire with create_new).       *)
(***************************************************************************)
THEOREM HoldersOwnTheirFile == LockSpec => []HolderOwnsFile
<1>1. LInv => HolderOwnsFile
  BY DEF LInv
<1>2. QED
  BY <1>1, LockInitInv, LockStepInv, PTL DEF LockSpec

(***************************************************************************)
(* Two processes are inside together only when one of them was robbed of   *)
(* its file: kills, error returns and files left behind never cause it.    *)
(***************************************************************************)
THEOREM OverlapOnlyByRobbery == LockSpec => []OverlapNeedsRobbery
<1>1. LInv => OverlapNeedsRobbery
  BY DEF LInv, HolderOwnsFile, OverlapNeedsRobbery
<1>2. QED
  BY <1>1, LockInitInv, LockStepInv, PTL DEF LockSpec

(***************************************************************************)
(* The builds.                                                             *)
(***************************************************************************)
(* Every step of a build leaves the lock alone or is a step of its guard. *)
LEMMA StepLock == [Next]_vars => [LockNext]_lockVars
<1> USE DEF lockVars, packVars, vars, Then, Fail, LockNext, GuardStep
<1>1. ASSUME NEW p \in Proc, Begin(p) PROVE LockNext
  BY <1>1 DEF Begin
<1>2. ASSUME NEW p \in Proc,
             \/ Assemble(p) \/ CleanStage(p) \/ CreateStage(p) \/ WriteStage(p)
             \/ DropBackup(p) \/ Park(p)
      PROVE  [LockNext]_lockVars
  BY <1>2 DEF Assemble, CleanStage, CreateStage, WriteStage, DropBackup, Park
<1>3. ASSUME NEW p \in Proc, Install(p) \/ RemoveBackup(p) \/ Rollback(p)
      PROVE  [LockNext]_lockVars
  BY <1>3 DEF Install, RemoveBackup, Rollback
<1>4. ASSUME NEW p \in Proc, Finish(p) \/ Release(p) \/ Unlock(p) \/ Die(p)
      PROVE  [LockNext]_lockVars
  BY <1>4 DEF Finish, Release, Unlock, Die
<1>5. ASSUME OperatorClearsLock PROVE LockNext
  BY <1>5 DEF OperatorClearsLock
<1>6. QED
  BY <1>1, <1>2, <1>3, <1>4, <1>5 DEF Next, BuildStep

(***************************************************************************)
(* The pack builder uses LockFileGuard as LockFile describes it.           *)
(***************************************************************************)
THEOREM BuildsUseTheGuard == Spec => LockSpec
<1>1. Init => LockInit
  BY DEF Init
<1>2. QED
  BY <1>1, StepLock, PTL DEF Spec, LockSpec

(***************************************************************************)
(* Two builds are inside the lock together only when one of them lost its  *)
(* lock file to another process.                                           *)
(***************************************************************************)
THEOREM BuildsOverlapOnlyByRobbery == Spec => []OverlapNeedsRobbery
  BY BuildsUseTheGuard, OverlapOnlyByRobbery, PTL

-----------------------------------------------------------------------------

(* What any step does to the slots. *)
LEMMA SlotsTyped ==
    ASSUME NEW n \in Nat, NEW m \in Nat, n <= m,
           NEW d \in [Slot -> Contents(n)]
    PROVE  /\ d \in [Slot -> Contents(m)]
           /\ \A s \in Slot : Removed(d, s) \in [Slot -> Contents(m)]
           /\ \A s \in Slot : HalfRemoved(d, s) \in [Slot -> Contents(m)]
           /\ \A s, t \in Slot : Renamed(d, s, t) \in [Slot -> Contents(m)]
           /\ \A s \in Slot, v \in 0..m : [d EXCEPT ![s] = Part(v)] \in [Slot -> Contents(m)]
           /\ \A s \in Slot, v \in 0..m : [d EXCEPT ![s] = Whole(v)] \in [Slot -> Contents(m)]
<1> USE DEF Contents, Absent, Part, Whole, Removed, HalfRemoved, Renamed
<1>1. \A c \in Contents(n) : c \in Contents(m)
  OBVIOUS
<1>2. \A v \in 0..m : Part(v) \in Contents(m) /\ Whole(v) \in Contents(m)
  OBVIOUS
<1>3. Absent \in Contents(m)
  OBVIOUS
<1>4. \A s \in Slot : Part(d[s].ver) \in Contents(m)
  OBVIOUS
<1>5. d \in [Slot -> Contents(m)]
  BY <1>1
<1>6. \A s \in Slot : \A c \in Contents(m) : [d EXCEPT ![s] = c] \in [Slot -> Contents(m)]
  BY <1>5
<1>7. QED
  BY <1>1, <1>2, <1>3, <1>4, <1>5, <1>6

(* The guard's own variables keep their types. *)
LEMMA StepLockTypes == LockTypeOK /\ [Next]_vars => LockTypeOK'
<1> SUFFICES ASSUME LockTypeOK, [LockNext]_lockVars PROVE LockTypeOK'
  BY StepLock
<1> USE NobodyAssumption DEF LockTypeOK, Phases, Move, RemoveFile, PathExists
<1>1. ASSUME NEW p \in Proc, Acquire(p) \/ Kill(p) PROVE LockTypeOK'
  BY <1>1 DEF Acquire, Kill
<1>2. ASSUME NEW p \in Proc, GuardStep(p) PROVE LockTypeOK'
  BY <1>2 DEF GuardStep, ReleaseCheck, ReleaseRemove, ReleaseFails, Bail, DropCheck,
     DropRemove
<1>3. CASE ClearStale
  BY <1>3 DEF ClearStale
<1>4. CASE UNCHANGED lockVars
  BY <1>4 DEF lockVars
<1>5. QED
  BY <1>1, <1>2, <1>3, <1>4 DEF LockNext

(* The variables of the builds keep theirs. *)
LEMMA StepTypes == TypeOK /\ [Next]_vars => TypeOK'
<1> SUFFICES ASSUME TypeOK, [Next]_vars PROVE TypeOK'
  OBVIOUS
<1>1. LockTypeOK'
  BY StepLockTypes DEF TypeOK
<1>2. run \in Nat /\ run' \in Nat /\ dir \in [Slot -> Contents(run)]
  <2>1. run \in Nat /\ dir \in [Slot -> Contents(run)]
    BY MaxRunsAssumption DEF TypeOK
  <2>2. run' = run \/ run' = run + 1
    BY DEF Next, BuildStep, Release, vars, packVars, Begin, Assemble, CleanStage, CreateStage,
           WriteStage, DropBackup, Park, Install, RemoveBackup, Rollback, Finish, Release,
           Unlock,
           Die, OperatorClearsLock, Unstarted
  <2>3. QED
    BY <2>1, <2>2
<1>3. ASSUME NEW p \in Proc, Begin(p) PROVE TypeOK'
  <2>1. dir' \in [Slot -> Contents(run')]
    BY <1>2, <1>3, SlotsTyped DEF Begin
  <2>2. \A c \in Contents(run) : c \in Contents(run')
    BY <1>2, <1>3 DEF Begin, Contents
  <2>3. before' \in [Proc -> Contents(run')]
    BY <1>2, <1>3, <2>2 DEF Begin, TypeOK, Slot
  <2>4. QED
    BY <1>1, <1>2, <1>3, <2>1, <2>3, MaxRunsAssumption
    DEF TypeOK, Begin, Steps, Outcomes, Inside
<1>4. ASSUME UNCHANGED <<run, ver, before, overlapped>>,
             dir' \in [Slot -> Contents(run)],
             step' \in [Proc -> Steps], outcome' \in [Proc -> Outcomes],
             stranded' \in SUBSET (0..run)
      PROVE  TypeOK'
  BY <1>1, <1>4 DEF TypeOK
<1> USE DEF Unstarted, Then, Fail, Steps, Outcomes, At
<1>5. ASSUME NEW p \in Proc, BuildStep(p) \/ Die(p)
      PROVE  dir' \in [Slot -> Contents(run)]
  <2>1. ver[p] \in 0..run
    BY DEF TypeOK
  <2>2. \/ dir' = dir
        \/ \E s \in Slot : dir' = Removed(dir, s) \/ dir' = HalfRemoved(dir, s)
        \/ \E s, t \in Slot : dir' = Renamed(dir, s, t)
        \/ dir' = [dir EXCEPT !["stage"] = Part(ver[p])]
        \/ dir' = [dir EXCEPT !["stage"] = Whole(ver[p])]
    BY <1>5 DEF Slot, BuildStep, Assemble, CleanStage, CreateStage, WriteStage,
       ReleaseFails, DropBackup, Park, Install, RemoveBackup, Rollback, Finish, Release,
       Unlock, Die, packVars
  <2>3. QED
    BY <1>2, <2>1, <2>2, SlotsTyped DEF Slot
<1>6. ASSUME NEW p \in Proc, BuildStep(p) \/ Die(p)
      PROVE  /\ UNCHANGED <<run, ver, before, overlapped>>
             /\ step' \in [Proc -> Steps] /\ outcome' \in [Proc -> Outcomes]
  BY <1>6 DEF TypeOK, BuildStep, Assemble, CleanStage, CreateStage, WriteStage,
     ReleaseFails, DropBackup, Park, Install, RemoveBackup, Rollback, Finish, Release,
     Unlock, Die, packVars
<1>7. ASSUME NEW p \in Proc, BuildStep(p) \/ Die(p) PROVE stranded' \in SUBSET (0..run)
  <2>1. stranded' = stranded \/ stranded' = stranded \cup {ver[p]}
    BY <1>7 DEF BuildStep, Assemble, CleanStage, CreateStage, WriteStage,
       ReleaseFails, DropBackup, Park, Install, RemoveBackup, Rollback, Finish, Release,
       Unlock, Die, packVars
  <2>2. ver[p] \in 0..run
    BY DEF TypeOK
  <2>3. QED
    BY <2>1, <2>2 DEF TypeOK
<1>8. QED
  BY <1>1, <1>3, <1>4, <1>5, <1>6, <1>7 DEF Next, vars, packVars, TypeOK, OperatorClearsLock

-----------------------------------------------------------------------------

(* The ways in which a build changes the slots. *)
LEMMA DirMoves ==
    ASSUME NEW p \in Proc, BuildStep(p) \/ Die(p)
    PROVE  \/ dir' = dir
           \/ \E s \in Slot : dir' = Removed(dir, s) \/ dir' = HalfRemoved(dir, s)
           \/ \E s, t \in Slot : s # t /\ dir' = Renamed(dir, s, t)
           \/ dir' = [dir EXCEPT !["stage"] = Part(ver[p])]
           \/ dir' = [dir EXCEPT !["stage"] = Whole(ver[p])]
  BY DEF Slot, BuildStep, Assemble, CleanStage, CreateStage, WriteStage,
     ReleaseFails, DropBackup, Park, Install, RemoveBackup, Rollback, Finish, Release,
     Unlock, Die, packVars

LEMMA StepAbsent == TypeOK /\ AbsentHasNoVersion /\ [Next]_vars => AbsentHasNoVersion'
<1> SUFFICES ASSUME TypeOK, AbsentHasNoVersion, [Next]_vars PROVE AbsentHasNoVersion'
  OBVIOUS
<1> USE DEF AbsentHasNoVersion, Exists
<1>1. DOMAIN dir = Slot /\ dir = [s \in Slot |-> dir[s]]
  BY DEF TypeOK
<1>2. ASSUME NEW p \in Proc, BuildStep(p) \/ Die(p) PROVE AbsentHasNoVersion'
  BY <1>1, <1>2, DirMoves DEF Removed, HalfRemoved, Renamed, Absent, Part, Whole
<1>3. QED
  BY <1>2 DEF Next, Begin, OperatorClearsLock, packVars, vars

(* Only an acquisition brings a process inside. *)
LEMMA WhoIsInside ==
    ASSUME TypeOK, NEW p \in Proc, BuildStep(p) \/ Die(p)
    PROVE  \A q \in Proc : Inside(q)' => Inside(q)
<1> USE DEF TypeOK, LockTypeOK, Inside, Move, Then, Fail, Bail
<1>1. CASE Assemble(p) \/ CleanStage(p) \/ CreateStage(p) \/ WriteStage(p) \/ DropBackup(p)
  BY <1>1 DEF Assemble, CleanStage, CreateStage, WriteStage, DropBackup, lockVars
<1>2. CASE Park(p) \/ Install(p) \/ RemoveBackup(p) \/ Rollback(p)
  BY <1>2 DEF Park, Install, RemoveBackup, Rollback, lockVars
<1>3. CASE Finish(p) \/ Release(p) \/ Unlock(p) \/ Die(p)
  BY <1>3 DEF Finish, Release, Unlock, Die, ReleaseCheck, ReleaseRemove, ReleaseFails,
     DropCheck,
     DropRemove, Kill
<1>4. QED
  BY <1>1, <1>2, <1>3 DEF BuildStep

(* What a build leaves alone whatever it does. *)
LEMMA BuildFrame ==
    ASSUME NEW p \in Proc, BuildStep(p) \/ Die(p)
    PROVE  UNCHANGED <<run, ver, before, overlapped>>
  BY DEF BuildStep, Assemble, CleanStage, CreateStage, WriteStage, DropBackup, Park,
     ReleaseFails, Install, RemoveBackup, Rollback, Finish, Release, Unlock, Die, packVars,
     Unstarted

LEMMA StepOneInside == TypeOK /\ OneInside /\ [Next]_vars => OneInside'
<1> SUFFICES ASSUME TypeOK, OneInside, [Next]_vars PROVE OneInside'
  OBVIOUS
<1>1. ASSUME NEW p \in Proc, Begin(p) PROVE OneInside'
  BY <1>1 DEF Begin, Acquire, Move, OneInside, Inside, TypeOK, LockTypeOK
<1>2. ASSUME NEW p \in Proc, BuildStep(p) \/ Die(p) PROVE OneInside'
  BY <1>2, WhoIsInside, BuildFrame DEF OneInside
<1>3. CASE OperatorClearsLock \/ UNCHANGED vars
  BY <1>3 DEF OneInside, Inside, OperatorClearsLock, ClearStale, packVars, vars, lockVars
<1>4. QED
  BY <1>1, <1>2, <1>3 DEF Next

(***************************************************************************)
(* One step of the build that is inside, alone: what it knows holds for    *)
(* its next call, and the pack directory stays whole.                      *)
(***************************************************************************)
LEMMA StepOfBuild ==
    ASSUME IInv, TypeOK', AbsentHasNoVersion', overlapped = {},
           NEW p \in Proc, Inside(p), BuildStep(p) \/ Die(p)
    PROVE  /\ Exists(dir, "target")' => IsWhole(dir, "target")'
           /\ Inside(p)' => /\ before'[p] = Absent \/ before'[p].files = "all"
                            /\ StageIsOurs(p)'
                            /\ PackKept(p)'
<1> DEFINE Goal == /\ Exists(dir, "target")' => IsWhole(dir, "target")'
                   /\ Inside(p)' => /\ before'[p] = Absent \/ before'[p].files = "all"
                                    /\ StageIsOurs(p)'
                                    /\ PackKept(p)'
<1>1. /\ Exists(dir, "target") => IsWhole(dir, "target")
      /\ before[p] = Absent \/ before[p].files = "all"
      /\ StageIsOurs(p) /\ PackKept(p)
  BY DEF IInv, PackIsWhole, BuildKnows
<1>2. before' = before /\ ver' = ver
  BY BuildFrame
<1>3. /\ step \in [Proc -> Steps] /\ dir = [s \in Slot |-> dir[s]]
      /\ phase \in [Proc -> Phases]
  BY DEF IInv, TypeOK, LockTypeOK
<1>4. \A s \in Slot : ~Exists(dir, s) => dir[s] = Absent
  BY DEF IInv, AbsentHasNoVersion
<1>5. \A s \in Slot : ~Exists(dir, s)' => dir'[s] = Absent
  BY DEF AbsentHasNoVersion
<1> HIDE DEF Goal
<1>6. ASSUME Bail(p) PROVE ~Inside(p)'
  BY <1>3, <1>6 DEF Bail, Move, Inside
<1> USE <1>1, <1>2, <1>3, <1>4, <1>5
        DEF StageIsOurs, PackKept, At, Then, Fail, Exists, IsWhole,
            Absent, Whole, Part, Slot, Removed, HalfRemoved, Renamed, CanRename
<1>7. ASSUME Assemble(p) PROVE Goal
  BY <1>6, <1>7 DEF Assemble, Goal
<1>8. ASSUME CleanStage(p) PROVE Goal
  BY <1>6, <1>8 DEF CleanStage, Goal
<1>9. ASSUME CreateStage(p) PROVE Goal
  BY <1>6, <1>9 DEF CreateStage, Goal
<1>10. ASSUME WriteStage(p) PROVE Goal
  BY <1>6, <1>10 DEF WriteStage, Goal
<1>11. ASSUME DropBackup(p) PROVE Goal
  BY <1>6, <1>11 DEF DropBackup, Goal
<1>12. ASSUME Park(p) PROVE Goal
  BY <1>6, <1>12 DEF Park, Goal
<1>13. ASSUME Install(p) PROVE Goal
  BY <1>6, <1>13 DEF Install, Goal
<1>14. ASSUME RemoveBackup(p) PROVE Goal
  BY <1>6, <1>14 DEF RemoveBackup, Goal
<1>15. ASSUME Rollback(p) PROVE Goal
  BY <1>6, <1>15 DEF Rollback, Goal
<1>16. ASSUME Finish(p) \/ Release(p) \/ Unlock(p) PROVE Goal
  BY <1>16 DEF Finish, Release, Unlock, ReleaseCheck, ReleaseRemove, ReleaseFails, DropCheck,
     DropRemove, Move, Inside, packVars, Goal
<1>17. ASSUME Die(p) PROVE Goal
  BY <1>17 DEF Die, Kill, Inside, Goal
<1>18. Goal
  BY <1>7, <1>8, <1>9, <1>10, <1>11, <1>12, <1>13, <1>14, <1>15, <1>16, <1>17 DEF BuildStep
<1>19. QED
  BY <1>18 DEF Goal

(* A step of one process leaves what the others know of themselves alone. *)
LEMMA OthersKeepTheirs ==
    ASSUME TypeOK, NEW p \in Proc, BuildStep(p) \/ Die(p), NEW q \in Proc, q # p
    PROVE  step'[q] = step[q] /\ outcome'[q] = outcome[q]
  BY DEF TypeOK, BuildStep, Assemble, CleanStage, CreateStage, WriteStage, DropBackup,
     ReleaseFails, Park, Install, RemoveBackup, Rollback, Finish, Release, Unlock, Die,
     packVars, Then, Fail

LEMMA OthersKeepTheirPhase ==
    ASSUME TypeOK, NEW p \in Proc, BuildStep(p) \/ Die(p), NEW q \in Proc, q # p
    PROVE  phase'[q] = phase[q]
  BY DEF TypeOK, LockTypeOK, BuildStep, Assemble, CleanStage, CreateStage, WriteStage,
     DropBackup, Park, Install, RemoveBackup, Rollback, Finish, Release, Unlock, Die, Then,
     Fail, Bail, Kill, Move, ReleaseCheck, ReleaseRemove, ReleaseFails, DropCheck, DropRemove,
     lockVars

(* Outside the lock nothing of the pack is touched. *)
LEMMA OutsideTouchesNothing ==
    ASSUME NEW p \in Proc, BuildStep(p) \/ Die(p), ~Inside(p)
    PROVE  dir' = dir
  BY DEF BuildStep, Assemble, CleanStage, CreateStage, WriteStage, DropBackup, Park,
     ReleaseFails, Install, RemoveBackup, Rollback, Finish, ReleaseCheck, Inside, Release,
     Unlock, Die, packVars, At

LEMMA StepBegin ==
    ASSUME IInv, NEW p \in Proc, Begin(p), overlapped' = {}
    PROVE  PackIsWhole' /\ BuildKnows'
<1> USE DEF Exists, IsWhole
<1>1. /\ step \in [Proc -> Steps] /\ before \in [Proc -> Contents(run)]
      /\ phase \in [Proc -> Phases] /\ dir' = dir
  BY DEF IInv, TypeOK, LockTypeOK, Begin
<1>2. overlapped = {} /\ \A q \in Proc : ~Inside(q)
  BY DEF Begin
<1>3. PackIsWhole'
  BY <1>1, <1>2 DEF IInv, PackIsWhole
<1>4. dir["target"] = Absent \/ dir["target"].files = "all"
  BY <1>2 DEF IInv, PackIsWhole, AbsentHasNoVersion, Slot
<1>5. \A q \in Proc : Inside(q)' => q = p
  BY <1>1, <1>2 DEF Begin, Acquire, Move, Inside
<1>6. step'[p] = "assemble" /\ before'[p] = dir["target"]
  BY <1>1 DEF Begin
<1>7. BuildKnows'
  BY <1>1, <1>4, <1>5, <1>6 DEF BuildKnows, StageIsOurs, PackKept
<1>8. QED
  BY <1>3, <1>7

LEMMA StepAlone ==
    ASSUME IInv, TypeOK', AbsentHasNoVersion', overlapped' = {},
           NEW p \in Proc, BuildStep(p) \/ Die(p)
    PROVE  PackIsWhole' /\ BuildKnows'
<1>1. UNCHANGED <<run, ver, before, overlapped>>
  BY BuildFrame
<1>2. overlapped = {} /\ TypeOK /\ OneInside
  BY <1>1 DEF IInv
<1>3. \A q \in Proc : Inside(q)' => Inside(q)
  BY <1>2, WhoIsInside
<1>4. CASE Inside(p)
  <2>1. \A q \in Proc : Inside(q)' => q = p
    BY <1>2, <1>3, <1>4 DEF OneInside
  <2>2. /\ Exists(dir, "target")' => IsWhole(dir, "target")'
        /\ Inside(p)' => /\ before'[p] = Absent \/ before'[p].files = "all"
                         /\ StageIsOurs(p)'
                         /\ PackKept(p)'
    BY <1>2, <1>4, StepOfBuild
  <2>3. QED
    BY <2>1, <2>2 DEF PackIsWhole, BuildKnows
<1>5. CASE ~Inside(p)
  <2>1. dir' = dir
    BY <1>5, OutsideTouchesNothing
  <2>2. \A q \in Proc : Inside(q)' => step'[q] = step[q]
    BY <1>2, <1>3, <1>5, OthersKeepTheirs
  <2>3. PackIsWhole'
    BY <1>2, <2>1 DEF IInv, PackIsWhole, Exists, IsWhole
  <2>4. BuildKnows'
    BY <1>1, <1>2, <1>3, <2>1, <2>2
    DEF IInv, BuildKnows, StageIsOurs, PackKept, Exists
  <2>5. QED
    BY <2>3, <2>4
<1>6. QED
  BY <1>4, <1>5

(* What a build in release relies on.  Nobody acquires a lock whose file is  *)
(* there, and nobody who is outside touches the pack.                        *)
LEMMA StepRelease == IInv /\ [Next]_vars => ReleaseKnows'
<1> SUFFICES ASSUME IInv, [Next]_vars, NEW p \in Proc, phase'[p] = "release", p \notin robbed'
             PROVE  /\ file' = p
                    /\ overlapped' = {} => /\ dir'["target"] = Whole(ver'[p])
                                           /\ \A q \in Proc : ~Inside(q)'
  BY DEF ReleaseKnows
<1>1. /\ phase \in [Proc -> Phases] /\ step \in [Proc -> Steps] /\ TypeOK
      /\ file \in Proc \cup {Nobody} /\ Nobody \notin Proc
  BY NobodyAssumption DEF IInv, TypeOK, LockTypeOK
<1>2. ASSUME NEW r \in Proc, Begin(r) PROVE FALSE
  <2>1. phase[p] = "release" /\ p # r
    BY <1>1, <1>2 DEF Begin, Acquire, Move
  <2>2. p \notin robbed /\ file = Nobody
    BY <1>2, <2>1 DEF Begin, Acquire, PathExists
  <2> QED
    BY <1>1, <2>1, <2>2 DEF IInv, ReleaseKnows
<1>3. ASSUME NEW r \in Proc, BuildStep(r) \/ Die(r)
      PROVE  /\ file' = p
             /\ overlapped' = {} => /\ dir'["target"] = Whole(ver'[p])
                                    /\ \A q \in Proc : ~Inside(q)'
  <2>1. UNCHANGED <<run, ver, before, overlapped>> /\ \A q \in Proc : Inside(q)' => Inside(q)
    BY <1>1, <1>3, BuildFrame, WhoIsInside
  <2>2. robbed \subseteq robbed' /\ (p \notin robbed' /\ file = p /\ phase'[p] = "release" => file' = p)
    <3>1. LockNext \/ UNCHANGED lockVars
      BY StepLock
    <3>2. ~\E q \in Proc : Acquire(q)
      BY <1>1, <1>3 DEF Acquire, Move, PathExists, BuildStep, Assemble, CleanStage,
         CreateStage,
         WriteStage, DropBackup, Park, Install, RemoveBackup, Rollback, Finish, Release,
         Unlock,
         Die, At, Inside, Then, Fail, Bail, ReleaseCheck, ReleaseRemove, ReleaseFails,
         DropCheck,
         DropRemove, Kill, RemoveFile, lockVars, Phases
    <3>3. ASSUME NEW q \in Proc, GuardStep(q) \/ Kill(q)
          PROVE robbed \subseteq robbed' /\ (p \notin robbed' /\ file = p /\ phase'[p] = "release" => file' = p)
      BY <1>1, <3>3 DEF GuardStep, ReleaseCheck, ReleaseRemove, ReleaseFails, Bail, DropCheck,
         DropRemove, Kill, RemoveFile, Move, Phases
    <3>4. CASE ClearStale
      BY <1>1, <3>4 DEF ClearStale
    <3> QED
      BY <3>1, <3>2, <3>3, <3>4 DEF LockNext, lockVars
  <2>3. CASE phase[p] = "release"
    <3>1. file = p /\ (overlapped = {} => dir["target"] = Whole(ver[p]) /\ \A q \in Proc : ~Inside(q))
      BY <2>2, <2>3 DEF IInv, ReleaseKnows
    <3>2. overlapped = {} => dir' = dir
      BY <1>3, <3>1, OutsideTouchesNothing
    <3> QED
      BY <2>1, <2>2, <3>1, <3>2
  <2>4. CASE phase[p] # "release"
    <3>1. Finish(p) /\ r = p
      BY <1>1, <1>3, <2>4 DEF BuildStep, Assemble, CleanStage, CreateStage,
         WriteStage, DropBackup, Park, Install, RemoveBackup, Rollback, Finish, Release,
         Unlock,
         Die, At, Inside, Then, Fail, Bail, ReleaseCheck, ReleaseRemove, ReleaseFails,
         DropCheck,
         DropRemove, Kill, Move, lockVars
    <3>2. Inside(p) /\ ~Inside(p)' /\ dir' = dir /\ step[p] = "finish"
      BY <1>1, <3>1 DEF Finish, At, ReleaseCheck, Move, Inside
    <3>3. file' = p
      BY <2>2, <3>2 DEF IInv, HolderOwnsFile
    <3>4. ASSUME overlapped = {} PROVE dir["target"] = Whole(ver[p]) /\ \A q \in Proc : Inside(q) => q = p
      BY <3>2, <3>4 DEF IInv, BuildKnows, PackKept, OneInside
    <3> QED
      BY <2>1, <3>2, <3>3, <3>4
  <2> QED
    BY <2>3, <2>4
<1>4. CASE OperatorClearsLock \/ UNCHANGED vars
  <2>1. UNCHANGED <<phase, robbed, packVars>> /\ (file' = file \/ phase[file] = "out")
    BY <1>4 DEF OperatorClearsLock, ClearStale, vars, lockVars
  <2>2. file = p /\ (overlapped = {} => dir["target"] = Whole(ver[p]) /\ \A q \in Proc : ~Inside(q))
    BY <2>1 DEF IInv, ReleaseKnows
  <2> QED
    BY <2>1, <2>2 DEF packVars, Inside
<1> QED
  BY <1>2, <1>3, <1>4 DEF Next

LEMMA InitIInv == Init => IInv
<1> SUFFICES ASSUME Init PROVE IInv
  OBVIOUS
<1> USE DEF Init, LockInit, Exists, Absent, Slot
<1>1. LockTypeOK
  BY NobodyAssumption DEF LockTypeOK, Phases
<1>2. TypeOK
  BY <1>1, MaxRunsAssumption DEF TypeOK, Contents, Steps, Outcomes
<1>3. AbsentHasNoVersion /\ PackIsWhole
  BY DEF AbsentHasNoVersion, PackIsWhole
<1>4. \A p \in Proc : ~Inside(p)
  BY DEF Inside
<1>5. QED
  BY <1>2, <1>3, <1>4 DEF IInv, OneInside, BuildKnows, HolderOwnsFile, ReleaseKnows

LEMMA StepIInv == IInv /\ [Next]_vars => IInv'
<1> SUFFICES ASSUME IInv, [Next]_vars PROVE IInv'
  OBVIOUS
<1>1. TypeOK' /\ AbsentHasNoVersion' /\ OneInside'
  BY StepTypes, StepAbsent, StepOneInside DEF IInv
<1>2. ASSUME overlapped' = {} PROVE PackIsWhole' /\ BuildKnows'
  <2>1. ASSUME NEW p \in Proc, Begin(p) PROVE PackIsWhole' /\ BuildKnows'
    BY <1>2, <2>1, StepBegin
  <2>2. ASSUME NEW p \in Proc, BuildStep(p) \/ Die(p) PROVE PackIsWhole' /\ BuildKnows'
    BY <1>1, <1>2, <2>2, StepAlone
  <2>3. ASSUME OperatorClearsLock \/ UNCHANGED vars PROVE PackIsWhole' /\ BuildKnows'
    BY <2>3 DEF OperatorClearsLock, ClearStale, packVars, vars, lockVars, IInv, PackIsWhole,
       BuildKnows, StageIsOurs, PackKept, Inside, Exists, IsWhole
  <2>4. QED
    BY <2>1, <2>2, <2>3 DEF Next
<1>3. PackIsWhole' /\ BuildKnows'
  BY <1>2 DEF PackIsWhole, BuildKnows
<1>4. HolderOwnsFile' /\ ReleaseKnows'
  <2>1. LInv
    BY DEF IInv, TypeOK, LInv
  <2> QED
    BY <2>1, StepLock, LockStepInv, StepRelease DEF LInv
<1>5. QED
  BY <1>1, <1>3, <1>4 DEF IInv

(* The invariant holds in every state, for any processes and number of builds. *)
LEMMA Invariance == Spec => []IInv
  BY InitIInv, StepIInv, PTL DEF Spec

(***************************************************************************)
(* Every variable of the pack builder keeps its type.                      *)
(***************************************************************************)
THEOREM TypeCorrect == Spec => []TypeOK
<1>1. IInv => TypeOK
  BY DEF IInv
<1>2. QED
  BY <1>1, Invariance, PTL

(***************************************************************************)
(* Whatever calls fail and whichever builds are killed, the pack directory *)
(* is never half of a pack or a mix of two as long as builds do not        *)
(* overlap.                                                                *)
(***************************************************************************)
THEOREM WholeWhileAlone == Spec => []PackIsWhole
<1>1. IInv => PackIsWhole
  BY DEF IInv
<1>2. QED
  BY <1>1, Invariance, PTL

-----------------------------------------------------------------------------

(* A build that gives up leaves the directory as it found it. *)
LEMMA FailStep ==
    ASSUME IInv, overlapped = {}, NEW p \in Proc, BuildStep(p) \/ Die(p),
           outcome[p] = "none", outcome'[p] = "kept"
    PROVE  dir'["target"] = before[p]
<1>1. /\ outcome \in [Proc -> Outcomes] /\ dir \in [Slot -> Contents(run)]
  BY DEF IInv, TypeOK
<1>2. Inside(p) => PackKept(p) /\ StageIsOurs(p)
  BY DEF IInv, BuildKnows
<1>3. ASSUME ~Inside(p) PROVE FALSE
  BY <1>1, <1>3 DEF BuildStep, Assemble, CleanStage, CreateStage, WriteStage, DropBackup,
     ReleaseFails, Park, Install, RemoveBackup, Rollback, Finish, ReleaseCheck, Inside,
     Release, Unlock, Die,
     packVars, At
<1>4. \A s \in Slot : ~Exists(dir, s) => dir[s] = Absent
  BY DEF IInv, AbsentHasNoVersion
<1> USE <1>1, <1>2, <1>3, <1>4
        DEF At, Then, Fail, PackKept, Slot, Removed, HalfRemoved, Renamed, CanRename
<1>5. ASSUME Assemble(p) \/ CleanStage(p) \/ CreateStage(p) \/ WriteStage(p)
      PROVE  dir'["target"] = before[p]
  BY <1>5 DEF Assemble, CleanStage, CreateStage, WriteStage
<1>6. ASSUME DropBackup(p) \/ Park(p) PROVE dir'["target"] = before[p]
  BY <1>6 DEF DropBackup, Park
<1>7. ASSUME Install(p) PROVE dir'["target"] = before[p]
  BY <1>7 DEF Install, Exists, Absent
<1>8. ASSUME Rollback(p) PROVE dir'["target"] = before[p]
  BY <1>8 DEF Rollback
<1>9. ASSUME RemoveBackup(p) \/ Finish(p) \/ Release(p) \/ Unlock(p) \/ Die(p) PROVE FALSE
  BY <1>9 DEF RemoveBackup, Finish, Release, Unlock, Die, packVars
<1>10. QED
  BY <1>5, <1>6, <1>7, <1>8, <1>9 DEF BuildStep

(* A build whose release fails has installed its whole pack. *)
LEMMA UnlockFailStep ==
    ASSUME IInv, overlapped = {}, NEW p \in Proc, BuildStep(p) \/ Die(p),
           outcome[p] = "none", outcome'[p] = "unlock_failed", p \notin robbed
    PROVE  dir'["target"] = Whole(ver[p])
<1>1. outcome \in [Proc -> Outcomes]
  BY DEF IInv, TypeOK
<1>2. Release(p)
  BY <1>1 DEF BuildStep, Assemble, CleanStage, CreateStage, WriteStage, DropBackup, Park,
     Install, RemoveBackup, Rollback, Finish, Release, Unlock, Die, packVars, Then, Fail
<1>3. phase[p] = "release" /\ dir' = dir
  BY <1>2 DEF Release, ReleaseRemove, ReleaseFails, Move
<1> QED
  BY <1>3 DEF IInv, ReleaseKnows

(***************************************************************************)
(* A build that reports an error without stranding the pack leaves the     *)
(* pack directory as it found it, unless it ran into another build or the  *)
(* error is that of the lock file's removal; then the pack directory holds *)
(* its whole pack.                                                         *)
(***************************************************************************)
THEOREM FailuresKeepThePack == Spec => FailureKeepsPack
<1> DEFINE Keeps(p) == outcome[p] = "none" /\ overlapped = {} =>
                         /\ outcome'[p] = "kept" => dir'["target"] = before[p]
                         /\ outcome'[p] = "unlock_failed" /\ p \notin robbed
                                => dir'["target"] = Whole(ver[p])
<1>1. IInv /\ [Next]_vars => [\A p \in Proc : Keeps(p)]_vars
  <2> SUFFICES ASSUME IInv, Next, NEW p \in Proc, outcome[p] = "none", overlapped = {},
                      \/ outcome'[p] = "kept"
                      \/ outcome'[p] = "unlock_failed" /\ p \notin robbed
               PROVE  /\ outcome'[p] = "kept" => dir'["target"] = before[p]
                      /\ outcome'[p] = "unlock_failed" => dir'["target"] = Whole(ver[p])
    OBVIOUS
  <2>1. outcome \in [Proc -> Outcomes] /\ TypeOK
    BY DEF IInv, TypeOK
  <2>2. ASSUME NEW q \in Proc, Begin(q) PROVE FALSE
    BY <2>1, <2>2 DEF Begin
  <2>3. ASSUME NEW q \in Proc, BuildStep(q) \/ Die(q)
        PROVE  /\ outcome'[p] = "kept" => dir'["target"] = before[p]
               /\ outcome'[p] = "unlock_failed" => dir'["target"] = Whole(ver[p])
    BY <2>1, <2>3, FailStep, UnlockFailStep, OthersKeepTheirs
  <2>4. ~OperatorClearsLock
    BY DEF OperatorClearsLock, packVars
  <2>5. QED
    BY <2>2, <2>3, <2>4 DEF Next
<1>2. QED
  BY <1>1, Invariance, PTL DEF Spec, FailureKeepsPack

-----------------------------------------------------------------------------
(* Where the last copy of a built pack is.                                   *)
BuiltBefore == \E p \in Proc : Installed(p) \/ before[p] # Absent

Swapping == \E p \in Proc : At(p, "install") \/ At(p, "rollback")

(* Between the two renames it is the backup, otherwise the pack directory,   *)
(* unless a build has left it in the backup for good.                        *)
CopyKept ==
    overlapped = {} /\ stranded = {} =>
        /\ BuiltBefore => IF Swapping THEN IsWhole(dir, "backup") ELSE IsWhole(dir, "target")
        /\ \A p \in Proc : At(p, "cleanup") \/ At(p, "finish") => IsWhole(dir, "target")

(* One step of the build that is inside, alone.                              *)
LEMMA CopyStep ==
    ASSUME IInv, CopyKept, overlapped = {}, stranded' = {},
           NEW p \in Proc, Inside(p), BuildStep(p) \/ Die(p)
    PROVE  CopyKept'
<1>1. /\ step \in [Proc -> Steps] /\ dir = [s \in Slot |-> dir[s]]
      /\ phase \in [Proc -> Phases] /\ outcome \in [Proc -> Outcomes] /\ TypeOK
  BY DEF IInv, TypeOK, LockTypeOK
<1>2. UNCHANGED <<run, ver, before, overlapped>>
  BY BuildFrame
<1>3. stranded = {}
  BY DEF BuildStep, Assemble, CleanStage, CreateStage, WriteStage, DropBackup, Park,
     ReleaseFails, Install, RemoveBackup, Rollback, Finish, Release, Unlock, Die, packVars,
     Then, Fail
<1>4. \A q \in Proc : Inside(q)' => q = p
  BY <1>1, WhoIsInside DEF IInv, OneInside
<1>5. \A q \in Proc : Inside(q) => q = p
  BY DEF IInv, OneInside
<1>6. \A q \in Proc : q # p => outcome'[q] = outcome[q] /\ phase'[q] = phase[q]
  BY <1>1, OthersKeepTheirs, OthersKeepTheirPhase
<1>7. /\ StageIsOurs(p) /\ PackKept(p)
      /\ Exists(dir, "target") => IsWhole(dir, "target")
  BY DEF IInv, BuildKnows, PackIsWhole
<1>8. /\ BuiltBefore => IF step[p] \in {"install", "rollback"} THEN IsWhole(dir, "backup")
                                                             ELSE IsWhole(dir, "target")
      /\ step[p] \in {"cleanup", "finish"} => IsWhole(dir, "target")
  BY <1>3, <1>5 DEF CopyKept, Swapping, At
<1> DEFINE Still == /\ BuiltBefore' =>
                         IF Inside(p)' /\ step'[p] \in {"install", "rollback"}
                           THEN IsWhole(dir, "backup")' ELSE IsWhole(dir, "target")'
                    /\ Inside(p)' /\ step'[p] \in {"cleanup", "finish"}
                         => IsWhole(dir, "target")'
<1>9. ASSUME Still PROVE CopyKept'
  BY <1>4, <1>9 DEF CopyKept, Swapping, At
<1>f. ASSUME NEW o, Fail(p, o) PROVE ~Inside(p)' /\ outcome'[p] = o
  BY <1>1, <1>f DEF Fail, Bail, Move, Inside
<1>t. ASSUME NEW s, Then(p, s) PROVE step'[p] = s /\ outcome' = outcome /\ Inside(p)'
  BY <1>1, <1>t DEF Then, lockVars, Inside
<1>o. step[p] # "finish" => (Installed(p)' => Installed(p))
  BY <1>1 DEF BuildStep, Assemble, CleanStage, CreateStage, WriteStage, DropBackup, Park,
     Install, RemoveBackup, Rollback, Finish, Release, Unlock, Die, packVars, Then, Fail, At,
     Installed, Bail, Kill, Move, ReleaseRemove, ReleaseFails, DropCheck, DropRemove, lockVars
<1>k. step[p] # "finish" => (BuiltBefore' => BuiltBefore)
  BY <1>2, <1>6, <1>o DEF BuiltBefore, Installed
<1> HIDE DEF Still
<1> USE DEF At, Exists, IsWhole, Absent, Whole, Part, Slot, Removed, HalfRemoved, Renamed,
            CanRename, StageIsOurs, PackKept
<1>10. ASSUME Assemble(p) \/ CleanStage(p) \/ CreateStage(p) \/ WriteStage(p) \/ DropBackup(p)
       PROVE Still
  BY <1>1, <1>7, <1>8, <1>f, <1>t, <1>k, <1>10 DEF Assemble, CleanStage, CreateStage,
     WriteStage,
     DropBackup, Still
<1>11. ASSUME Park(p) PROVE Still
  BY <1>1, <1>7, <1>8, <1>f, <1>t, <1>k, <1>11 DEF Park, Still
<1>12. ASSUME Install(p) PROVE Still
  BY <1>1, <1>7, <1>8, <1>f, <1>t, <1>k, <1>12 DEF Install, Still
<1>13. ASSUME RemoveBackup(p) PROVE Still
  BY <1>1, <1>7, <1>8, <1>f, <1>t, <1>k, <1>13 DEF RemoveBackup, Still
<1>14. ASSUME Rollback(p) PROVE Still
  BY <1>1, <1>7, <1>8, <1>f, <1>t, <1>k, <1>14 DEF Rollback, Fail, Still
<1>15. ASSUME Finish(p) PROVE Still
  BY <1>1, <1>8, <1>15 DEF Finish, ReleaseCheck, Move, Inside, Still
<1>16. ASSUME Release(p) \/ Unlock(p) PROVE Still
  BY <1>1, <1>16 DEF Release, Unlock, ReleaseRemove, ReleaseFails, DropCheck, DropRemove,
     Move,
     Inside
<1>17. ASSUME Die(p) PROVE Still
  BY <1>1, <1>7, <1>8, <1>k, <1>17 DEF Die, Kill, Inside, Still
<1> QED
  BY <1>9, <1>10, <1>11, <1>12, <1>13, <1>14, <1>15, <1>16, <1>17 DEF BuildStep

LEMMA StepCopy == IInv /\ CopyKept /\ [Next]_vars => CopyKept'
<1> SUFFICES ASSUME IInv, CopyKept, [Next]_vars, overlapped' = {}, stranded' = {}
             PROVE  CopyKept'
  BY DEF CopyKept
<1>t. /\ step \in [Proc -> Steps] /\ phase \in [Proc -> Phases] /\ TypeOK
      /\ outcome \in [Proc -> Outcomes] /\ before \in [Proc -> Contents(run)]
  BY DEF IInv, TypeOK, LockTypeOK
<1>1. ASSUME NEW p \in Proc, Begin(p) PROVE CopyKept'
  <2>1. overlapped = {} /\ stranded = {} /\ \A q \in Proc : ~Inside(q)
    BY <1>1 DEF Begin
  <2>2. BuiltBefore => IsWhole(dir, "target")
    BY <2>1 DEF CopyKept, Swapping, At
  <2>3. Exists(dir, "target") => IsWhole(dir, "target")
    BY <2>1 DEF IInv, PackIsWhole
  <2>4. BuiltBefore' => BuiltBefore \/ dir["target"] # Absent
    BY <1>1, <1>t DEF Begin, BuiltBefore, Installed, Acquire, Move
  <2>5. dir["target"] # Absent => Exists(dir, "target")
    BY DEF IInv, AbsentHasNoVersion, Slot
  <2>6. \A q \in Proc : Inside(q)' => step'[q] = "assemble"
    BY <1>1, <1>t, <2>1 DEF Begin, Acquire, Move, Inside
  <2>7. dir' = dir
    BY <1>1 DEF Begin
  <2> QED
    BY <2>2, <2>3, <2>4, <2>5, <2>6, <2>7 DEF CopyKept, Swapping, At, IsWhole
<1>2. ASSUME NEW p \in Proc, BuildStep(p) \/ Die(p) PROVE CopyKept'
  <2>1. overlapped = {}
    BY <1>2, BuildFrame
  <2>2. CASE Inside(p)
    BY <1>2, <2>1, <2>2, CopyStep
  <2>3. CASE ~Inside(p)
    <3>1. dir' = dir /\ before' = before /\ overlapped' = overlapped
      BY <1>2, <2>3, OutsideTouchesNothing, BuildFrame
    <3>2. /\ \A q \in Proc : Inside(q)' => Inside(q)
          /\ \A q \in Proc : q # p => step'[q] = step[q] /\ outcome'[q] = outcome[q]
      BY <1>2, <1>t, WhoIsInside, OthersKeepTheirs
    <3>3. stranded = {}
      BY <1>2 DEF BuildStep, Assemble, CleanStage, CreateStage, WriteStage, DropBackup, Park,
         ReleaseFails, Install, RemoveBackup, Rollback, Finish, Release, Unlock, Die,
         packVars, Then, Fail
    <3>4. Installed(p)' => Installed(p)
      BY <1>2, <1>t, <2>3 DEF BuildStep, Assemble, CleanStage, CreateStage, WriteStage,
         DropBackup, Park, Install, RemoveBackup, Rollback, Finish, Release, Unlock, Die,
         packVars, At, Inside, Installed, Kill, Move, ReleaseCheck, ReleaseRemove,
         ReleaseFails, DropCheck, DropRemove
    <3>5. \A q \in Proc : q # p /\ Inside(q) => Inside(q)'
      BY <1>2, <1>t DEF Inside, BuildStep, Assemble, CleanStage, CreateStage, WriteStage,
         ReleaseFails, DropBackup, Park, Install, RemoveBackup, Rollback, Finish, Release,
         Unlock, Die, Then, Fail,
         Bail, Kill, Move, ReleaseCheck, ReleaseRemove, DropCheck, DropRemove, lockVars
    <3>6. BuiltBefore' => BuiltBefore
      BY <1>2, <1>t, <3>1, <3>2, <3>4, OthersKeepTheirPhase DEF BuiltBefore, Installed
    <3>7. Swapping' <=> Swapping
      BY <2>3, <3>2, <3>5 DEF Swapping, At
    <3> QED
      BY <2>1, <2>3, <3>1, <3>2, <3>3, <3>6, <3>7 DEF CopyKept, At, IsWhole
  <2> QED
    BY <2>2, <2>3
<1>3. CASE OperatorClearsLock \/ UNCHANGED vars
  BY <1>3 DEF OperatorClearsLock, ClearStale, packVars, vars, lockVars, CopyKept, Swapping,
     BuiltBefore, Installed, At, Inside, IsWhole
<1> QED
  BY <1>1, <1>2, <1>3 DEF Next

(***************************************************************************)
(* Whatever fails and whichever builds are killed, the last copy of a      *)
(* built pack is lost only after some build left it in the backup for good *)
(* or two builds overlapped.                                               *)
(***************************************************************************)
THEOREM NothingElseLoses == Spec => []LossNeedsStranding
<1>1. Init => CopyKept
  BY DEF Init, CopyKept, BuiltBefore, Installed, At, LockInit, Inside
<1>2. CopyKept => LossNeedsStranding
  BY DEF CopyKept, LossNeedsStranding, BuiltBefore
<1> QED
  BY <1>1, <1>2, StepCopy, Invariance, PTL DEF Spec
=============================================================================
