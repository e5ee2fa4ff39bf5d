--------------------------- MODULE MC_EngineHandle ---------------------------
(* Three threads: two closes can wait while a query runs, and a query and a  *)
(* failure of another thread can fall between any two steps of a call.       *)
EXTENDS EngineHandle
=============================================================================
