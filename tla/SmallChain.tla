----------------------------- MODULE SmallChain -----------------------------
(***************************************************************************)
(* The small chains the model-checking modules use.                        *)
(*                                                                         *)
(* Forked: a1 - b2 and a1 - c2 - d3, so the node can reorganise at height  *)
(* 2 and ingestion can have stored either branch.  t1 is in b2, where it   *)
(* emits a Transfer, and again in d3, where it reverts; t2 is in b2 and in *)
(* c2, and emits one in both.                                              *)
(***************************************************************************)
EXTENDS Store

CONSTANTS a1, b2, c2, d3, t1, t2

ForkedBlocks == {a1, b2, c2, d3}

MCNumber ==
  [b \in Blocks |-> CASE b = a1 -> 1 [] b \in {b2, c2} -> 2 [] b = d3 -> 3]

MCParent ==
  [b \in Blocks |-> CASE b = a1 -> None [] b \in {b2, c2} -> a1 [] b = d3 -> c2]

MCTxsOf ==
  [b \in Blocks |-> CASE b = a1 -> {} [] b = b2 -> {t1, t2} [] b = c2 -> {t2} [] b = d3 -> {t1}]

MCEmitting == {<<b2, t1>>, <<b2, t2>>, <<c2, t2>>} \cap (Blocks \X Txs)
=============================================================================
