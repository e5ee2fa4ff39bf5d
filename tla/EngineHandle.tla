---------------------------- MODULE EngineHandle ----------------------------
(***************************************************************************)
(* One native engine shared by the threads of a JVM: KurmanciEngine.kt     *)
(* over the JNI bridge (ffi/kurmanci-jni/src/lib.rs) over the C ABI        *)
(* (ffi/src/lib.rs). The Kotlin object keeps the native pointer behind a   *)
(* ReentrantReadWriteLock: a query holds the read lock from the moment it  *)
(* looks at the pointer until the bridge has copied the answer, and        *)
(* close() clears the pointer and frees the engine under the write lock.   *)
(*                                                                         *)
(* A thread is somewhere in one call (at). The engine itself is immutable, *)
(* so an answer is only its shape: a pack info that borrows a string of    *)
(* the engine, a boolean, or a result list of at most MaxItems items that  *)
(* the bridge copies one by one and must destroy.                          *)
(***************************************************************************)
EXTENDS FfiErrors, Naturals

CONSTANT MaxItems   \* bound: the items of a result list

ASSUME ItemsAssumption == MaxItems \in Nat

VARIABLES
    handle,   \* KurmanciEngine.handle: "unopened", "engine" or "zero"
    memory,   \* the EngineHandle box: "none", "live" or "freed"
    readers,  \* the threads holding the read lock
    writers,  \* the threads holding the write lock
    at,       \* where each thread is
    status,   \* the status its last C call returned
    list,     \* its result list: "none" or "live"
    left,     \* the items it has yet to copy
    thrown    \* how its call ended: "returned", "closed", "jvm" or the message
              \*   of the KurmanciException; "running" until then

vars == <<said, handle, memory, readers, writers, at, status, list, left, thrown>>
lock == <<readers, writers>>
call == <<status, list, left, thrown>>

Places == {"idle", "want_read", "check", "convert", "borrow", "len", "item",
           "throw", "drop_list", "drop_throw", "leave",
           "want_write", "swap", "destroy", "unlock"}

Endings == {"running", "returned", "closed", "jvm"}

(* A message and an ending are told apart. *)
ASSUME EndingsAssumption == Message \cap Endings = {}

(* The places where the bridge holds a result list. *)
UsesList == {"len", "item", "drop_list", "drop_throw"}

TypeOK ==
    /\ ErrorsTypeOK
    /\ handle \in {"unopened", "engine", "zero"}
    /\ memory \in {"none", "live", "freed"}
    /\ readers \in SUBSET Thread
    /\ writers \in SUBSET Thread
    /\ at \in [Thread -> Places]
    /\ status \in [Thread -> Status]
    /\ list \in [Thread -> {"none", "live"}]
    /\ left \in [Thread -> 0..MaxItems]
    /\ thrown \in [Thread -> Message \cup Endings]

Init ==
    /\ ErrorsInit
    /\ handle = "unopened"
    /\ memory = "none"
    /\ readers = {}
    /\ writers = {}
    /\ at = [t \in Thread |-> "idle"]
    /\ status = [t \in Thread |-> OK]
    /\ list = [t \in Thread |-> "none"]
    /\ left = [t \in Thread |-> 0]
    /\ thrown = [t \in Thread |-> "returned"]

Go(t, from, to) == at[t] = from /\ at' = [at EXCEPT ![t] = to]

(* A guarded C call of thread t that returns s. *)
CCall(t, s) == FfiGuard(t, s) /\ status' = [status EXCEPT ![t] = s]

End(t, how) == thrown' = [thrown EXCEPT ![t] = how]

-----------------------------------------------------------------------------
(* Opening and the lock *)

(* KurmanciEngine.open / openFile: kmr_engine_create_from_*; on a failure  *)
(* the bridge throws and no Kotlin object exists.                          *)
Open(t) ==
    /\ handle = "unopened"
    /\ at[t] = "idle"
    /\ \E s \in Status :
         /\ CCall(t, s)
         /\ IF s = OK
              THEN /\ handle' = "engine"
                   /\ memory' = "live"
                   /\ End(t, "returned")
              ELSE /\ UNCHANGED <<handle, memory>>
                   /\ End(t, s)
    /\ UNCHANGED <<at, list, left, lock>>

(* A query on the shared object: packInfo, isKnownWord, suggest, ... *)
Query(t) ==
    /\ handle # "unopened"
    /\ Go(t, "idle", "want_read")
    /\ End(t, "running")
    /\ UNCHANGED <<said, handle, memory, lock, status, list, left>>

Close(t) ==
    /\ handle # "unopened"
    /\ Go(t, "idle", "want_write")
    /\ UNCHANGED <<said, handle, memory, lock, call>>

(* lock.read { ... }. The JDK lets no reader overtake a writer that is     *)
(* first in its queue.                                                     *)
LockRead(t) ==
    /\ writers = {}
    /\ \A u \in Thread : at[u] # "want_write"
    /\ Go(t, "want_read", "check")
    /\ readers' = readers \cup {t}
    /\ UNCHANGED <<said, handle, memory, writers, call>>

LockWrite(t) ==
    /\ readers = {}
    /\ writers = {}
    /\ Go(t, "want_write", "swap")
    /\ writers' = {t}
    /\ UNCHANGED <<said, handle, memory, readers, call>>

-----------------------------------------------------------------------------
(* A query inside withHandle *)

(* check(h != 0L); the block is entered with the value just read. *)
CheckOpen(t) ==
    /\ IF handle = "zero"
         THEN Go(t, "check", "leave") /\ End(t, "closed")
         ELSE Go(t, "check", "convert") /\ UNCHANGED thrown
    /\ UNCHANGED <<said, handle, memory, lock, status, list, left>>

(* The bridge converts the arguments: the JVM fails, or a string has a NUL. *)
RejectArgument(t) ==
    /\ Go(t, "convert", "leave")
    /\ End(t, "jvm")
    /\ UNCHANGED <<said, handle, memory, lock, status, list, left>>

(* kmr_engine_get_info, _is_known_word, _suggest, ... on the engine.        *)
NativeCall(t) ==
    /\ \E s \in Status :
         /\ CCall(t, s)
         /\ \/ s # OK /\ Go(t, "convert", "throw") /\ UNCHANGED <<list, thrown>>
            \/ s = OK /\ Go(t, "convert", "borrow") /\ UNCHANGED <<list, thrown>>
            \/ s = OK /\ Go(t, "convert", "leave") /\ End(t, "returned")
               /\ UNCHANGED list
            \/ s = OK /\ Go(t, "convert", "len") /\ UNCHANGED thrown
               /\ list' = [list EXCEPT ![t] = "live"]
    /\ UNCHANGED <<handle, memory, lock, left>>

(* nativeGetPackInfo copies the language tag out of the engine. *)
CopyInfo(t) ==
    /\ Go(t, "borrow", "leave")
    /\ \E how \in {"returned", "jvm"} : End(t, how)
    /\ UNCHANGED <<said, handle, memory, lock, status, list, left>>

(* kmr_*_list_len, then the class lookup and the result array. *)
ListLen(t) ==
    /\ \E s \in Status, n \in 0..MaxItems :
         /\ CCall(t, s)
         /\ left' = [left EXCEPT ![t] = IF s = OK THEN n ELSE 0]
         /\ \/ s # OK /\ Go(t, "len", "drop_throw") /\ UNCHANGED thrown
            \/ s = OK /\ Go(t, "len", "drop_list") /\ End(t, "jvm")
            \/ s = OK /\ Go(t, "len", "item") /\ UNCHANGED thrown
    /\ UNCHANGED <<handle, memory, lock, list>>

(* Mutant: the loop runs once more than there are items. *)
ListItemPastEnd(t) ==
    /\ \E s \in Status :
         /\ CCall(t, s)
         /\ \/ s # OK /\ Go(t, "item", "drop_throw") /\ UNCHANGED <<left, thrown>>
            \/ s = OK /\ Go(t, "item", "item") /\ UNCHANGED thrown
               /\ left' = [left EXCEPT ![t] = @ - 1]
    /\ UNCHANGED <<handle, memory, lock, list>>

(* kmr_*_list_get of one item and its Java object. *)
ListItem(t) ==
    /\ left[t] > 0
    /\ \E s \in Status :
         /\ CCall(t, s)
         /\ \/ s # OK /\ Go(t, "item", "drop_throw") /\ UNCHANGED <<left, thrown>>
            \/ s = OK /\ Go(t, "item", "drop_list") /\ End(t, "jvm")
               /\ UNCHANGED left
            \/ s = OK /\ Go(t, "item", "item") /\ UNCHANGED thrown
               /\ left' = [left EXCEPT ![t] = @ - 1]
    /\ UNCHANGED <<handle, memory, lock, list>>

AllItemsCopied(t) ==
    /\ left[t] = 0
    /\ Go(t, "item", "drop_list")
    /\ End(t, "returned")
    /\ UNCHANGED <<said, handle, memory, lock, status, list, left>>

(* Mutant: an item that cannot be read throws without destroying the list. *)
DropListOnSuccess(t) ==
    /\ \/ Go(t, "drop_list", "leave") /\ list' = [list EXCEPT ![t] = "none"]
       \/ Go(t, "drop_throw", "throw") /\ UNCHANGED list
    /\ left' = [left EXCEPT ![t] = 0]
    /\ UNCHANGED <<said, handle, memory, lock, status, thrown>>

(* kmr_*_list_destroy runs outside ffi_guard: the message is kept. *)
DropList(t) ==
    /\ \/ Go(t, "drop_list", "leave")
       \/ Go(t, "drop_throw", "throw")
    /\ list' = [list EXCEPT ![t] = "none"]
    /\ left' = [left EXCEPT ![t] = 0]
    /\ UNCHANGED <<said, handle, memory, lock, status, thrown>>

(* throw_kmr_exception: the message read back from the thread's cell. *)
Throw(t) ==
    /\ Go(t, "throw", "leave")
    /\ End(t, said[t])
    /\ UNCHANGED <<said, handle, memory, lock, status, list, left>>

(* Mutant: an exception leaves the block without releasing the lock. *)
UnlockReadOnReturn(t) ==
    /\ Go(t, "leave", "idle")
    /\ readers' = IF thrown[t] = "returned" THEN readers \ {t} ELSE readers
    /\ UNCHANGED <<said, handle, memory, writers, call>>

(* The read lock is released however the block ends. *)
UnlockRead(t) ==
    /\ Go(t, "leave", "idle")
    /\ readers' = readers \ {t}
    /\ UNCHANGED <<said, handle, memory, writers, call>>

-----------------------------------------------------------------------------
(* close() under the write lock *)

(* Mutant: close does not look whether it has closed already. *)
ClearHandleAgain(t) ==
    /\ Go(t, "swap", "destroy")
    /\ handle' = "zero"
    /\ UNCHANGED <<said, memory, lock, call>>

(* val h = handle; handle = 0L: a second close finds zero and does nothing. *)
ClearHandle(t) ==
    /\ IF handle = "zero"
         THEN Go(t, "swap", "unlock") /\ UNCHANGED handle
         ELSE Go(t, "swap", "destroy") /\ handle' = "zero"
    /\ UNCHANGED <<said, memory, lock, call>>

(* nativeDestroy, kmr_engine_destroy. *)
Destroy(t) ==
    /\ Go(t, "destroy", "unlock")
    /\ memory' = "freed"
    /\ UNCHANGED <<said, handle, lock, call>>

UnlockWrite(t) ==
    /\ Go(t, "unlock", "idle")
    /\ writers' = writers \ {t}
    /\ UNCHANGED <<said, handle, memory, readers, call>>

-----------------------------------------------------------------------------

QueryStep(t) ==
    \/ LockRead(t) \/ CheckOpen(t) \/ RejectArgument(t) \/ NativeCall(t)
    \/ CopyInfo(t) \/ ListLen(t) \/ ListItem(t) \/ AllItemsCopied(t)
    \/ DropList(t) \/ Throw(t) \/ UnlockRead(t)

CloseStep(t) == LockWrite(t) \/ ClearHandle(t) \/ Destroy(t) \/ UnlockWrite(t)

Next == \E t \in Thread : Open(t) \/ Query(t) \/ Close(t) \/ QueryStep(t) \/ CloseStep(t)

(* A thread that is inside a call keeps running; no thread has to start one. *)
Fairness == \A t \in Thread : WF_vars(QueryStep(t) \/ CloseStep(t))

Spec == Init /\ [][Next]_vars /\ Fairness

-----------------------------------------------------------------------------
(* Properties *)

(* A native call, a read of a borrowed string and nativeDestroy only ever   *)
(* happen on an engine that has not been freed: no use after free and no    *)
(* double free, whatever queries and closes overlap.                        *)
EngineUsedWhileLive ==
    \A t \in Thread : at[t] \in {"convert", "borrow", "destroy"} => memory = "live"

(* The message of a KurmanciException is the one of the C call that failed  *)
(* in the same thread, not of another thread and not of a later call.       *)
ExceptionTellsItsOwnFailure ==
    \A t \in Thread : thrown[t] \in Message => thrown[t] = status[t]

(* A result list exists from the call that made it to its only destroy, on  *)
(* every path, and never survives the call.                                 *)
ListsFreedExactlyOnce ==
    \A t \in Thread : list[t] = "live" <=> at[t] \in UsesList

(* Once a thread asks to close, the engine is freed, although other threads *)
(* go on querying.                                                          *)
CloseFrees == \A t \in Thread : at[t] = "want_write" ~> memory = "freed"

-----------------------------------------------------------------------------
(* The inductive invariant behind the three safety properties *)

ReadPlaces == {"check", "convert", "borrow", "len", "item", "throw",
               "drop_list", "drop_throw", "leave"}
WritePlaces == {"swap", "destroy", "unlock"}

LockMatchesPlaces ==
    /\ \A t \in Thread : at[t] \in ReadPlaces => t \in readers
    /\ \A t \in Thread : at[t] \in WritePlaces => t \in writers
    /\ \A t \in readers : t \notin writers
    /\ \A t, u \in writers : t = u
    /\ writers # {} => readers = {}

(* What the pointer says of the memory, for those who may look at it. *)
HandleMatchesMemory ==
    /\ handle = "engine" => memory = "live"
    /\ \A t \in Thread : at[t] # "idle" => handle # "unopened"
    /\ \A t \in Thread : at[t] \in ReadPlaces \ {"check", "leave"} => handle = "engine"
    /\ \A t \in Thread : at[t] = "destroy" => handle = "zero" /\ memory = "live"

MessageMatchesCall ==
    /\ \A t \in Thread : at[t] \in {"throw", "drop_throw"} => said[t] = status[t]
    /\ \A t \in Thread : at[t] \in {"want_read", "check", "convert", "len", "item"}
                            => thrown[t] = "running"

IInv ==
    /\ TypeOK
    /\ LockMatchesPlaces
    /\ HandleMatchesMemory
    /\ MessageMatchesCall
    /\ ExceptionTellsItsOwnFailure
    /\ ListsFreedExactlyOnce

=============================================================================
