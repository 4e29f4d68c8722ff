---------------------------- MODULE MCEvaluation ----------------------------
(***************************************************************************)
(* Evaluation on the small chains.                                         *)
(***************************************************************************)
EXTENDS Evaluation, SmallChain
=============================================================================
