----------------------------- MODULE MC_LockFile -----------------------------
(* Two processes suffice: the one that releases, and comes back while the   *)
(* other, whose file it removed, is still inside.                           *)
EXTENDS LockFile
=============================================================================
