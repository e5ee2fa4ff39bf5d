------------------------- MODULE EngineHandleProofs -------------------------
(***************************************************************************)
(* For every number of threads, every set of statuses and lists of any     *)
(* length: the engine is never used or freed after it was freed, a result  *)
(* list is destroyed exactly once, and an exception carries the message of *)
(* its own failure. The argument is the inductive invariant IInv: who      *)
(* holds which lock, what the pointer says of the memory, and which        *)
(* message is still in the cell when the bridge throws.                    *)
(***************************************************************************)
EXTENDS EngineHandle, TLAPS

(* Every step keeps the variables in their types. *)
LEMMA StepTypes == ASSUME TypeOK, [Next]_vars PROVE TypeOK'
<1> USE StatusAssumption, ItemsAssumption
        DEF TypeOK, ErrorsTypeOK, FfiGuard, CCall, Go, End, Status, Message,
            Places, Endings, lock, call
<1>1. ASSUME NEW t \in Thread, Open(t) PROVE TypeOK'
  BY <1>1 DEF Open
<1>2. ASSUME NEW t \in Thread, Query(t) PROVE TypeOK'
  BY <1>2 DEF Query
<1>3. ASSUME NEW t \in Thread, Close(t) PROVE TypeOK'
  BY <1>3 DEF Close
<1>4. ASSUME NEW t \in Thread, LockRead(t) PROVE TypeOK'
  BY <1>4 DEF LockRead
<1>5. ASSUME NEW t \in Thread, CheckOpen(t) PROVE TypeOK'
  BY <1>5 DEF CheckOpen
<1>6. ASSUME NEW t \in Thread, RejectArgument(t) PROVE TypeOK'
  BY <1>6 DEF RejectArgument
<1>7. ASSUME NEW t \in Thread, NativeCall(t) PROVE TypeOK'
  BY <1>7 DEF NativeCall
<1>8. ASSUME NEW t \in Thread, CopyInfo(t) PROVE TypeOK'
  BY <1>8 DEF CopyInfo
<1>9. ASSUME NEW t \in Thread, ListLen(t) PROVE TypeOK'
  BY <1>9 DEF ListLen
<1>10. ASSUME NEW t \in Thread, ListItem(t) PROVE TypeOK'
  BY <1>10 DEF ListItem
<1>11. ASSUME NEW t \in Thread, AllItemsCopied(t) PROVE TypeOK'
  BY <1>11 DEF AllItemsCopied
<1>12. ASSUME NEW t \in Thread, DropList(t) PROVE TypeOK'
  BY <1>12 DEF DropList
<1>13. ASSUME NEW t \in Thread, Throw(t) PROVE TypeOK'
  BY <1>13 DEF Throw
<1>14. ASSUME NEW t \in Thread, UnlockRead(t) PROVE TypeOK'
  BY <1>14 DEF UnlockRead
<1>15. ASSUME NEW t \in Thread, LockWrite(t) PROVE TypeOK'
  BY <1>15 DEF LockWrite
<1>16. ASSUME NEW t \in Thread, ClearHandle(t) PROVE TypeOK'
  BY <1>16 DEF ClearHandle
<1>17. ASSUME NEW t \in Thread, Destroy(t) PROVE TypeOK'
  BY <1>17 DEF Destroy
<1>18. ASSUME NEW t \in Thread, UnlockWrite(t) PROVE TypeOK'
  BY <1>18 DEF UnlockWrite
<1>19. CASE UNCHANGED vars
  BY <1>19 DEF vars
<1> QED
  BY <1>1, <1>2, <1>3, <1>4, <1>5, <1>6, <1>7, <1>8, <1>9, <1>10, <1>11, <1>12,
     <1>13, <1>14, <1>15, <1>16, <1>17, <1>18, <1>19
  DEF Next, QueryStep, CloseStep

(* Readers and the writer exclude each other. *)
LEMMA StepLock ==
  ASSUME TypeOK, LockMatchesPlaces, TypeOK', [Next]_vars PROVE LockMatchesPlaces'
<1> USE DEF TypeOK, LockMatchesPlaces, ReadPlaces, WritePlaces, Places, CCall, Go, End, lock, call
<1>1. ASSUME NEW t \in Thread, Open(t) PROVE LockMatchesPlaces'
  BY <1>1 DEF Open
<1>2. ASSUME NEW t \in Thread, Query(t) PROVE LockMatchesPlaces'
  BY <1>2 DEF Query
<1>3. ASSUME NEW t \in Thread, Close(t) PROVE LockMatchesPlaces'
  BY <1>3 DEF Close
<1>4. ASSUME NEW t \in Thread, LockRead(t) PROVE LockMatchesPlaces'
  BY <1>4 DEF LockRead
<1>5. ASSUME NEW t \in Thread, CheckOpen(t) PROVE LockMatchesPlaces'
  BY <1>5 DEF CheckOpen
<1>6. ASSUME NEW t \in Thread, RejectArgument(t) PROVE LockMatchesPlaces'
  BY <1>6 DEF RejectArgument
<1>7. ASSUME NEW t \in Thread, NativeCall(t) PROVE LockMatchesPlaces'
  BY <1>7 DEF NativeCall
<1>8. ASSUME NEW t \in Thread, CopyInfo(t) PROVE LockMatchesPlaces'
  BY <1>8 DEF CopyInfo
<1>9. ASSUME NEW t \in Thread, ListLen(t) PROVE LockMatchesPlaces'
  BY <1>9 DEF ListLen
<1>10. ASSUME NEW t \in Thread, ListItem(t) PROVE LockMatchesPlaces'
  BY <1>10 DEF ListItem
<1>11. ASSUME NEW t \in Thread, AllItemsCopied(t) PROVE LockMatchesPlaces'
  BY <1>11 DEF AllItemsCopied
<1>12. ASSUME NEW t \in Thread, DropList(t) PROVE LockMatchesPlaces'
  BY <1>12 DEF DropList
<1>13. ASSUME NEW t \in Thread, Throw(t) PROVE LockMatchesPlaces'
  BY <1>13 DEF Throw
<1>14. ASSUME NEW t \in Thread, UnlockRead(t) PROVE LockMatchesPlaces'
  BY <1>14 DEF UnlockRead
<1>15. ASSUME NEW t \in Thread, LockWrite(t) PROVE LockMatchesPlaces'
  BY <1>15 DEF LockWrite
<1>16. ASSUME NEW t \in Thread, ClearHandle(t) PROVE LockMatchesPlaces'
  BY <1>16 DEF ClearHandle
<1>17. ASSUME NEW t \in Thread, Destroy(t) PROVE LockMatchesPlaces'
  BY <1>17 DEF Destroy
<1>18. ASSUME NEW t \in Thread, UnlockWrite(t) PROVE LockMatchesPlaces'
  BY <1>18 DEF UnlockWrite
<1>19. CASE UNCHANGED vars
  BY <1>19 DEF vars
<1> QED
  BY <1>1, <1>2, <1>3, <1>4, <1>5, <1>6, <1>7, <1>8, <1>9, <1>10, <1>11,
     <1>12, <1>13, <1>14, <1>15, <1>16, <1>17, <1>18, <1>19
  DEF Next, QueryStep, CloseStep

(* The pointer goes on telling the truth about the memory. *)
LEMMA StepHandle ==
  ASSUME TypeOK, LockMatchesPlaces, HandleMatchesMemory, TypeOK', [Next]_vars PROVE HandleMatchesMemory'
<1> USE DEF TypeOK, LockMatchesPlaces, HandleMatchesMemory, ReadPlaces, WritePlaces, Places, CCall, Go, End, lock, call
<1>1. ASSUME NEW t \in Thread, Open(t) PROVE HandleMatchesMemory'
  BY <1>1 DEF Open
<1>2. ASSUME NEW t \in Thread, Query(t) PROVE HandleMatchesMemory'
  BY <1>2 DEF Query
<1>3. ASSUME NEW t \in Thread, Close(t) PROVE HandleMatchesMemory'
  BY <1>3 DEF Close
<1>4. ASSUME NEW t \in Thread, LockRead(t) PROVE HandleMatchesMemory'
  BY <1>4 DEF LockRead
<1>5. ASSUME NEW t \in Thread, CheckOpen(t) PROVE HandleMatchesMemory'
  BY <1>5 DEF CheckOpen
<1>6. ASSUME NEW t \in Thread, RejectArgument(t) PROVE HandleMatchesMemory'
  BY <1>6 DEF RejectArgument
<1>7. ASSUME NEW t \in Thread, NativeCall(t) PROVE HandleMatchesMemory'
  BY <1>7 DEF NativeCall
<1>8. ASSUME NEW t \in Thread, CopyInfo(t) PROVE HandleMatchesMemory'
  BY <1>8 DEF CopyInfo
<1>9. ASSUME NEW t \in Thread, ListLen(t) PROVE HandleMatchesMemory'
  BY <1>9 DEF ListLen
<1>10. ASSUME NEW t \in Thread, ListItem(t) PROVE HandleMatchesMemory'
  BY <1>10 DEF ListItem
<1>11. ASSUME NEW t \in Thread, AllItemsCopied(t) PROVE HandleMatchesMemory'
  BY <1>11 DEF AllItemsCopied
<1>12. ASSUME NEW t \in Thread, DropList(t) PROVE HandleMatchesMemory'
  BY <1>12 DEF DropList
<1>13. ASSUME NEW t \in Thread, Throw(t) PROVE HandleMatchesMemory'
  BY <1>13 DEF Throw
<1>14. ASSUME NEW t \in Thread, UnlockRead(t) PROVE HandleMatchesMemory'
  BY <1>14 DEF UnlockRead
<1>15. ASSUME NEW t \in Thread, LockWrite(t) PROVE HandleMatchesMemory'
  BY <1>15 DEF LockWrite
<1>16. ASSUME NEW t \in Thread, ClearHandle(t) PROVE HandleMatchesMemory'
  BY <1>16 DEF ClearHandle
<1>17. ASSUME NEW t \in Thread, Destroy(t) PROVE HandleMatchesMemory'
  BY <1>17 DEF Destroy
<1>18. ASSUME NEW t \in Thread, UnlockWrite(t) PROVE HandleMatchesMemory'
  BY <1>18 DEF UnlockWrite
<1>19. CASE UNCHANGED vars
  BY <1>19 DEF vars
<1> QED
  BY <1>1, <1>2, <1>3, <1>4, <1>5, <1>6, <1>7, <1>8, <1>9, <1>10, <1>11,
     <1>12, <1>13, <1>14, <1>15, <1>16, <1>17, <1>18, <1>19
  DEF Next, QueryStep, CloseStep

(* Every list has one destroy. *)
LEMMA StepLists ==
  ASSUME TypeOK, ListsFreedExactlyOnce, TypeOK', [Next]_vars PROVE ListsFreedExactlyOnce'
<1> USE DEF TypeOK, ListsFreedExactlyOnce, UsesList, Places, CCall, Go, End, lock, call
<1>1. ASSUME NEW t \in Thread, Open(t) PROVE ListsFreedExactlyOnce'
  BY <1>1 DEF Open
<1>2. ASSUME NEW t \in Thread, Query(t) PROVE ListsFreedExactlyOnce'
  BY <1>2 DEF Query
<1>3. ASSUME NEW t \in Thread, Close(t) PROVE ListsFreedExactlyOnce'
  BY <1>3 DEF Close
<1>4. ASSUME NEW t \in Thread, LockRead(t) PROVE ListsFreedExactlyOnce'
  BY <1>4 DEF LockRead
<1>5. ASSUME NEW t \in Thread, CheckOpen(t) PROVE ListsFreedExactlyOnce'
  BY <1>5 DEF CheckOpen
<1>6. ASSUME NEW t \in Thread, RejectArgument(t) PROVE ListsFreedExactlyOnce'
  BY <1>6 DEF RejectArgument
<1>7. ASSUME NEW t \in Thread, NativeCall(t) PROVE ListsFreedExactlyOnce'
  BY <1>7 DEF NativeCall
<1>8. ASSUME NEW t \in Thread, CopyInfo(t) PROVE ListsFreedExactlyOnce'
  BY <1>8 DEF CopyInfo
<1>9. ASSUME NEW t \in Thread, ListLen(t) PROVE ListsFreedExactlyOnce'
  BY <1>9 DEF ListLen
<1>10. ASSUME NEW t \in Thread, ListItem(t) PROVE ListsFreedExactlyOnce'
  BY <1>10 DEF ListItem
<1>11. ASSUME NEW t \in Thread, AllItemsCopied(t) PROVE ListsFreedExactlyOnce'
  BY <1>11 DEF AllItemsCopied
<1>12. ASSUME NEW t \in Thread, DropList(t) PROVE ListsFreedExactlyOnce'
  BY <1>12 DEF DropList
<1>13. ASSUME NEW t \in Thread, Throw(t) PROVE ListsFreedExactlyOnce'
  BY <1>13 DEF Throw
<1>14. ASSUME NEW t \in Thread, UnlockRead(t) PROVE ListsFreedExactlyOnce'
  BY <1>14 DEF UnlockRead
<1>15. ASSUME NEW t \in Thread, LockWrite(t) PROVE ListsFreedExactlyOnce'
  BY <1>15 DEF LockWrite
<1>16. ASSUME NEW t \in Thread, ClearHandle(t) PROVE ListsFreedExactlyOnce'
  BY <1>16 DEF ClearHandle
<1>17. ASSUME NEW t \in Thread, Destroy(t) PROVE ListsFreedExactlyOnce'
  BY <1>17 DEF Destroy
<1>18. ASSUME NEW t \in Thread, UnlockWrite(t) PROVE ListsFreedExactlyOnce'
  BY <1>18 DEF UnlockWrite
<1>19. CASE UNCHANGED vars
  BY <1>19 DEF vars
<1> QED
  BY <1>1, <1>2, <1>3, <1>4, <1>5, <1>6, <1>7, <1>8, <1>9, <1>10, <1>11,
     <1>12, <1>13, <1>14, <1>15, <1>16, <1>17, <1>18, <1>19
  DEF Next, QueryStep, CloseStep

(* The cell and the exception keep the message of the failure. *)
LEMMA StepMessage ==
  ASSUME TypeOK, MessageMatchesCall, ExceptionTellsItsOwnFailure, TypeOK', [Next]_vars PROVE (MessageMatchesCall /\ ExceptionTellsItsOwnFailure)'
<1> USE StatusAssumption, EndingsAssumption DEF TypeOK, ErrorsTypeOK, MessageMatchesCall, ExceptionTellsItsOwnFailure, FfiGuard, Status, Message, Endings, Places, CCall, Go, End, lock, call
<1>1. ASSUME NEW t \in Thread, Open(t) PROVE (MessageMatchesCall /\ ExceptionTellsItsOwnFailure)'
  BY <1>1 DEF Open
<1>2. ASSUME NEW t \in Thread, Query(t) PROVE (MessageMatchesCall /\ ExceptionTellsItsOwnFailure)'
  BY <1>2 DEF Query
<1>3. ASSUME NEW t \in Thread, Close(t) PROVE (MessageMatchesCall /\ ExceptionTellsItsOwnFailure)'
  BY <1>3 DEF Close
<1>4. ASSUME NEW t \in Thread, LockRead(t) PROVE (MessageMatchesCall /\ ExceptionTellsItsOwnFailure)'
  BY <1>4 DEF LockRead
<1>5. ASSUME NEW t \in Thread, CheckOpen(t) PROVE (MessageMatchesCall /\ ExceptionTellsItsOwnFailure)'
  BY <1>5 DEF CheckOpen
<1>6. ASSUME NEW t \in Thread, RejectArgument(t) PROVE (MessageMatchesCall /\ ExceptionTellsItsOwnFailure)'
  BY <1>6 DEF RejectArgument
<1>7. ASSUME NEW t \in Thread, NativeCall(t) PROVE (MessageMatchesCall /\ ExceptionTellsItsOwnFailure)'
  BY <1>7 DEF NativeCall
<1>8. ASSUME NEW t \in Thread, CopyInfo(t) PROVE (MessageMatchesCall /\ ExceptionTellsItsOwnFailure)'
  BY <1>8 DEF CopyInfo
<1>9. ASSUME NEW t \in Thread, ListLen(t) PROVE (MessageMatchesCall /\ ExceptionTellsItsOwnFailure)'
  BY <1>9 DEF ListLen
<1>10. ASSUME NEW t \in Thread, ListItem(t) PROVE (MessageMatchesCall /\ ExceptionTellsItsOwnFailure)'
  BY <1>10 DEF ListItem
<1>11. ASSUME NEW t \in Thread, AllItemsCopied(t) PROVE (MessageMatchesCall /\ ExceptionTellsItsOwnFailure)'
  BY <1>11 DEF AllItemsCopied
<1>12. ASSUME NEW t \in Thread, DropList(t) PROVE (MessageMatchesCall /\ ExceptionTellsItsOwnFailure)'
  BY <1>12 DEF DropList
<1>13. ASSUME NEW t \in Thread, Throw(t) PROVE (MessageMatchesCall /\ ExceptionTellsItsOwnFailure)'
  BY <1>13 DEF Throw
<1>14. ASSUME NEW t \in Thread, UnlockRead(t) PROVE (MessageMatchesCall /\ ExceptionTellsItsOwnFailure)'
  BY <1>14 DEF UnlockRead
<1>15. ASSUME NEW t \in Thread, LockWrite(t) PROVE (MessageMatchesCall /\ ExceptionTellsItsOwnFailure)'
  BY <1>15 DEF LockWrite
<1>16. ASSUME NEW t \in Thread, ClearHandle(t) PROVE (MessageMatchesCall /\ ExceptionTellsItsOwnFailure)'
  BY <1>16 DEF ClearHandle
<1>17. ASSUME NEW t \in Thread, Destroy(t) PROVE (MessageMatchesCall /\ ExceptionTellsItsOwnFailure)'
  BY <1>17 DEF Destroy
<1>18. ASSUME NEW t \in Thread, UnlockWrite(t) PROVE (MessageMatchesCall /\ ExceptionTellsItsOwnFailure)'
  BY <1>18 DEF UnlockWrite
<1>19. CASE UNCHANGED vars
  BY <1>19 DEF vars
<1> QED
  BY <1>1, <1>2, <1>3, <1>4, <1>5, <1>6, <1>7, <1>8, <1>9, <1>10, <1>11,
     <1>12, <1>13, <1>14, <1>15, <1>16, <1>17, <1>18, <1>19
  DEF Next, QueryStep, CloseStep

-----------------------------------------------------------------------------

LEMMA InitIInv == ASSUME Init PROVE IInv
<1> USE StatusAssumption, ItemsAssumption, EndingsAssumption
        DEF Init, ErrorsInit, Status, Message, Endings, Places
<1>1. TypeOK
  BY DEF TypeOK, ErrorsTypeOK
<1>2. LockMatchesPlaces /\ HandleMatchesMemory
  BY DEF LockMatchesPlaces, HandleMatchesMemory, ReadPlaces, WritePlaces
<1>3. MessageMatchesCall /\ ExceptionTellsItsOwnFailure
  BY DEF MessageMatchesCall, ExceptionTellsItsOwnFailure
<1>4. ListsFreedExactlyOnce
  BY DEF ListsFreedExactlyOnce, UsesList
<1> QED
  BY <1>1, <1>2, <1>3, <1>4 DEF IInv

LEMMA StepIInv == ASSUME IInv, [Next]_vars PROVE IInv'
<1>1. TypeOK'
  BY StepTypes DEF IInv
<1>2. LockMatchesPlaces' /\ HandleMatchesMemory'
  BY <1>1, StepLock, StepHandle DEF IInv
<1>3. ListsFreedExactlyOnce' /\ MessageMatchesCall' /\ ExceptionTellsItsOwnFailure'
  BY <1>1, StepLists, StepMessage DEF IInv
<1> QED
  BY <1>1, <1>2, <1>3 DEF IInv

LEMMA AlwaysIInv == Spec => []IInv
<1>1. Init => IInv
  BY InitIInv
<1>2. IInv /\ [Next]_vars => IInv'
  BY StepIInv
<1> QED
  BY <1>1, <1>2, PTL DEF Spec

(* Whatever queries and closes overlap, a native call, a read of a borrowed *)
(* string and nativeDestroy only happen on an engine not yet freed.         *)
THEOREM NoUseAfterFree == Spec => []EngineUsedWhileLive
<1>1. IInv => EngineUsedWhileLive
  BY DEF IInv, HandleMatchesMemory, EngineUsedWhileLive, ReadPlaces
<1> QED
  BY <1>1, AlwaysIInv, PTL

(* On every path of the bridge, its error paths included, a result list has *)
(* exactly one destroy.                                                     *)
THEOREM ListsNeverLeak == Spec => []ListsFreedExactlyOnce
<1>1. IInv => ListsFreedExactlyOnce
  BY DEF IInv
<1> QED
  BY <1>1, AlwaysIInv, PTL

(* A KurmanciException carries the message of the C call that failed in its *)
(* own thread, whatever the other threads call meanwhile.                   *)
THEOREM ExceptionsTellTheirOwnFailure == Spec => []ExceptionTellsItsOwnFailure
<1>1. IInv => ExceptionTellsItsOwnFailure
  BY DEF IInv
<1> QED
  BY <1>1, AlwaysIInv, PTL

(* The variables keep their types. *)
THEOREM TypeCorrect == Spec => []TypeOK
<1>1. IInv => TypeOK
  BY DEF IInv
<1> QED
  BY <1>1, AlwaysIInv, PTL

=============================================================================
