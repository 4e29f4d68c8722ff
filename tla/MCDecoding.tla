----------------------------- MODULE MCDecoding -----------------------------
(***************************************************************************)
(* Decoding on the small chains.                                           *)
(***************************************************************************)
EXTENDS Decoding, SmallChain
=============================================================================
