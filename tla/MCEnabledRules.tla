--------------------------- MODULE MCEnabledRules ---------------------------
(***************************************************************************)
(* The catalog and the index with two rules, so that one changed rule is   *)
(* not more than half of them, and two trees, which are interchangeable.   *)
(***************************************************************************)
EXTENDS EnabledRules, TLC

TreeSymmetry == Permutations(Trees)
=============================================================================
