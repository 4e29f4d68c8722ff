---------------------------- MODULE MCCircuitEdits ----------------------------
(* Circuits of up to four gates.  Proposals have up to three; one saved rule *)
(* has a group first, and another a group in a group of its type and a group *)
(* with a single gate.                                                        *)
EXTENDS CircuitEdits

SmallGates == 1 .. 4

SmallReadings ==
    {reading \in [unrecognised : BOOLEAN, tokens : 0 .. 2, tests : 0 .. 2] :
        LET count == reading.tokens + reading.tests + (IF reading.unrecognised THEN 1 ELSE 0)
        IN  count \in 1 .. 3}

SmallSaved ==
    {Group("or", <<Group("and", <<Gate(1), Gate(2)>>), Gate(3)>>),
     Group("and", <<Gate(1), Group("and", <<Gate(2), Group("or", <<Gate(3)>>)>>)>>)}

(* In pixels: the least a gate takes, and more for longer texts. *)
SmallWidth == <<128, 200, 128, 260>>

SmallBoxes == {300, 600, 1200}
=============================================================================
