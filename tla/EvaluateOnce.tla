----------------------------- MODULE EvaluateOnce -----------------------------
(***************************************************************************)
(* What evaluation promises of the blocks, with nothing of how: a stored   *)
(* block waits, and one step evaluates it and records all its matches.  It *)
(* is never evaluated again, a match is never recorded before, after or    *)
(* apart from that step, and no match is recorded twice in it.             *)
(***************************************************************************)
EXTENDS Integers

CONSTANTS
  Block,    \* the blocks there may be
  Row       \* the <<rule, block, transaction>> a match may name

VARIABLES
  waiting,  \* blocks stored and not evaluated
  finished, \* blocks evaluated
  recorded  \* how many times each match was recorded

vars == <<waiting, finished, recorded>>

Init ==
  /\ waiting = {}
  /\ finished = {}
  /\ recorded = [m \in Row |-> 0]

Arrive(b) ==
  /\ waiting' = waiting \cup {b}
  /\ UNCHANGED <<finished, recorded>>

Evaluate(b) ==
  /\ b \in waiting
  /\ waiting' = waiting \ {b}
  /\ finished' = finished \cup {b}
  /\ \E found \in SUBSET {m \in Row : m[2] = b} :
       recorded' = [m \in Row |-> IF m \in found THEN 1 ELSE recorded[m]]

Next ==
  \/ \E b \in Block \ finished : Arrive(b)
  \/ \E b \in Block : Evaluate(b)

Spec == Init /\ [][Next]_vars
=============================================================================
