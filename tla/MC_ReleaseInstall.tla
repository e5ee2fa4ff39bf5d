-------------------------- MODULE MC_ReleaseInstall --------------------------
(* Four runs of the release command: enough for a run that strands the      *)
(* previous bundle, one that is killed while recovering, one that fails     *)
(* again and one that installs.                                             *)
EXTENDS ReleaseInstall
=============================================================================
