--------------------------- MODULE MC_ErrorPointer ---------------------------
(* Two threads and two failing statuses. *)
EXTENDS ErrorPointer
=============================================================================
