------------------------- MODULE MCProctoringQueue -------------------------
(***************************************************************************)
(* Small instances of ProctoringQueue for TLC.                             *)
(***************************************************************************)
EXTENDS ProctoringQueue
=============================================================================
