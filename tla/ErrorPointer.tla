---------------------------- MODULE ErrorPointer ----------------------------
(***************************************************************************)
(* How long the pointer kmr_last_error_message returns stays good. The     *)
(* pointer is the inside of the CString in the thread's cell, and each     *)
(* assignment to the cell drops the CString that was there.                *)
(***************************************************************************)
EXTENDS FfiErrors

VARIABLES
    kept,    \* the pointer each thread holds: "none", "valid" or "dangling"
    failed   \* history: the threads with a failing call since they read it

vars == <<said, kept, failed>>

TypeOK ==
    /\ ErrorsTypeOK
    /\ kept \in [Thread -> {"none", "valid", "dangling"}]
    /\ failed \in SUBSET Thread

Init ==
    /\ ErrorsInit
    /\ kept = [t \in Thread |-> "none"]
    /\ failed = {}

(* Any guarded function of the ABI, with the status it returns. *)
Call(t, outcome) ==
    /\ FfiGuard(t, outcome)
    /\ kept' = [kept EXCEPT ![t] = IF @ = "none" THEN "none" ELSE "dangling"]
    /\ failed' = IF outcome = OK THEN failed ELSE failed \cup {t}

(* kmr_last_error_message: a pointer into the cell as it is now. *)
ReadMessage(t) ==
    /\ kept' = [kept EXCEPT ![t] = "valid"]
    /\ failed' = failed \ {t}
    /\ UNCHANGED said

Next == \E t \in Thread : ReadMessage(t) \/ \E o \in Status : Call(t, o)

Spec == Init /\ [][Next]_vars

(* docs/integration.md: the message is "valid until the next failing call  *)
(* on the same thread". A successful call frees it as well, since          *)
(* ffi_guard empties the cell first: the code does not keep this.          *)
ValidUntilNextFailure == \A t \in Thread : kept[t] = "dangling" => t \in failed

=============================================================================
