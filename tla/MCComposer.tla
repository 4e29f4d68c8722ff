------------------------------ MODULE MCComposer ------------------------------
(* Two conditions that can be backtested and one that cannot; the first      *)
(* sentence is understood and the other is not.                              *)
EXTENDS Composer, TLC

CONSTANTS small, large, blank, s1, s2

SmallProposed == s1 :> small @@ s2 :> None
=============================================================================
