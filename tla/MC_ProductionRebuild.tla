------------------------ MODULE MC_ProductionRebuild ------------------------
(* Two command processes over a repository of two packs. *)
EXTENDS ProductionRebuild, TLC

CONSTANTS seed, reviewed

Order == <<seed, reviewed>>

Versions == Permutations(Proc) \cup Permutations(Registry) \cup Permutations(Config)
            \cup Permutations(Decisions) \cup Permutations(Policy)
=============================================================================
