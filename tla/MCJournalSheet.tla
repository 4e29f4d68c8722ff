---------------------------- MODULE MCJournalSheet ----------------------------
(***************************************************************************)
(* Three matches of two rules, in two transactions: a transaction's two    *)
(* matches lie between the positions that the other's can be at.           *)
(***************************************************************************)
EXTENDS JournalSheet

MCMatches == 11 .. 13
MCRuleOf == [m \in MCMatches |-> IF m = 12 THEN 2 ELSE 1]
MCTransactionOf == [m \in MCMatches |-> IF m = 11 THEN "moved" ELSE "stays"]
MCPositions == 1 .. 4
MCFirstPosition == [m \in MCMatches |-> m - 10]
=============================================================================
