------------------------------ MODULE FfiErrors ------------------------------
(***************************************************************************)
(* The error channel of the C ABI (ffi/src/lib.rs): one message cell per   *)
(* thread, rewritten by ffi_guard around the body of every fallible call.  *)
(* A message is abstracted to the status of the call that wrote it.        *)
(***************************************************************************)

CONSTANTS
    Thread,     \* the host's threads
    Failure,    \* the statuses other than KMR_OK
    OK,         \* KMR_OK
    NoMessage   \* the empty message

ASSUME StatusAssumption == OK \notin Failure /\ NoMessage \notin Failure \cup {OK}

VARIABLE said   \* LAST_ERROR_MESSAGE: the message in each thread's cell

Status  == Failure \cup {OK}
Message == Failure \cup {NoMessage}

ErrorsTypeOK == said \in [Thread -> Message]

ErrorsInit == said = [t \in Thread |-> NoMessage]

(* Mutant: one cell for the whole process instead of one per thread. *)
FfiGuardShared(t, outcome) ==
    said' = [u \in Thread |-> IF outcome = OK THEN NoMessage ELSE outcome]

(* ffi_guard empties the cell before it runs the body, and fills it again *)
(* with the message of the failure, a caught panic included.              *)
FfiGuard(t, outcome) ==
    said' = [said EXCEPT ![t] = IF outcome = OK THEN NoMessage ELSE outcome]

=============================================================================
