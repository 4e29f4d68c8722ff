----------------------------- MODULE MCPipeline -----------------------------
(***************************************************************************)
(* The pipeline on the small chains.                                       *)
(***************************************************************************)
EXTENDS Pipeline, SmallChain
=============================================================================
