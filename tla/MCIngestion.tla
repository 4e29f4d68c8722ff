----------------------------- MODULE MCIngestion -----------------------------
(***************************************************************************)
(* Ingestion on the small chains.                                          *)
(***************************************************************************)
EXTENDS Ingestion, SmallChain
=============================================================================
