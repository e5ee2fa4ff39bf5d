---------------------------- MODULE MC_PackBuild ----------------------------
(* Two build processes and three builds: one that strands a pack, one that  *)
(* fails or is killed while it cleans up, and one that installs.            *)
EXTENDS PackBuild
=============================================================================
