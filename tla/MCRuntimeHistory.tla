--------------------------- MODULE MCRuntimeHistory ---------------------------
(* The instance of MCRuntime with the history of runs.                     *)
EXTENDS MCRuntime, RuntimeHistory
=============================================================================
