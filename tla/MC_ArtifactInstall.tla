------------------------- MODULE MC_ArtifactInstall -------------------------
(* Three runs: one installs, one is killed between the two renames, one     *)
(* finds only the backup.                                                   *)
EXTENDS ArtifactInstall
=============================================================================
