---------------------------- MODULE CircuitEdits ----------------------------
(***************************************************************************)
(* A draft's circuit as the composer edits it.  A proposal or a saved rule  *)
(* brings a tree; the user selects a gate of it, wires another next to it,  *)
(* in series or on a parallel branch, or removes it.                        *)
(***************************************************************************)
EXTENDS CircuitLayout

CONSTANTS
    Readings, \* what is read in the sentences that are described
    Saved,    \* the trees of saved rules
    Boxes     \* the widths a drawing's box can have

Proposals == {ParseSentence(reading) : reading \in Readings}

(* Something is read in a sentence that has a proposal, and it may be tokens *)
(* in a group of their own.                                                  *)
ASSUME ReadingsAssumption ==
    /\ Gates \subseteq Nat /\ MaxNesting >= 2
    /\ Readings \subseteq [unrecognised : BOOLEAN, tokens : Nat, tests : Nat]
    /\ \A reading \in Readings : GatesRead(reading) > 0 /\ 1 .. GatesRead(reading) \subseteq Gates

(* Ids tell the gates of a saved rule apart. *)
ASSUME SavedAssumption == \A tree \in Saved : tree \in Trees /\ IsGroup(tree) /\ GatesDiffer(tree)

(* The width of a box is floored. *)
ASSUME BoxesAssumption == Boxes \subseteq Nat

VARIABLES
    circuit,    \* the draft's condition
    selected    \* the selected gate, or none

editVars == <<circuit, selected>>

NoGate == -1

(* A new gate has an id that no gate of the circuit has. *)
FreshIds == Gates \ GatesOf(circuit)

(* A sentence is wired, or a saved rule is opened: nothing is selected. *)
Show(tree) == circuit' = tree /\ selected' = NoGate

Propose == \E tree \in Proposals : Show(tree)

OpenSaved == \E tree \in Saved : Show(tree)

Pick(id) == id \in GatesOf(circuit) /\ selected' = id /\ UNCHANGED circuit

AddGate(kind) ==
    /\ selected # NoGate
    /\ FreshIds # {}
    /\ LET fresh == Min(FreshIds) IN
           /\ Insert(circuit, selected, kind, fresh) \in Trees
           /\ circuit' = AddSibling(circuit, selected, kind, fresh)
           /\ selected' = fresh

CanRemove == Cardinality(GatesOf(circuit)) > 1

RemoveGate ==
    /\ selected # NoGate
    /\ CanRemove
    /\ circuit' = RemoveNode(circuit, selected)
    /\ selected' = NoGate

EditInit == circuit \in Saved \union Proposals /\ selected = NoGate

EditNext ==
    \/ Propose
    \/ OpenSaved
    \/ \E id \in Gates : Pick(id)
    \/ \E kind \in {"and", "or"} : AddGate(kind)
    \/ RemoveGate

EditSpec == EditInit /\ [][EditNext]_editVars

------------------------------------------------------------------------------
AllFindings(gates) == [gates -> Findings]

And(a, b) == CASE "open" \in {a, b} -> "open" [] {a, b} = {"held"} -> "held" [] OTHER -> "unknown"
Or(a, b) == CASE "held" \in {a, b} -> "held" [] {a, b} = {"open"} -> "open" [] OTHER -> "unknown"

(* A gate wired in series or in parallel makes the circuit match what it did *)
(* with the selected gate read as both, or as either; a gate removed, what   *)
(* it did with that gate read as if it were not there.  However the tree is  *)
(* rewritten around them by addSibling, removeNode and normalize, nothing    *)
(* else changes, whatever each gate finds, no data included.                 *)
EditsAsWired ==
    [][LET Found == AllFindings(GatesOf(circuit) \union GatesOf(circuit'))
           Reading(f, finding) == Evaluate(circuit, [f EXCEPT ![selected] = finding]) IN
       /\ AddGate("and") => \A f \in Found :
              Evaluate(circuit', f) = Reading(f, And(f[selected], f[selected']))
       /\ AddGate("or") => \A f \in Found :
              Evaluate(circuit', f) = Reading(f, Or(f[selected], f[selected']))
       /\ RemoveGate => \A f \in Found :
              Evaluate(circuit', f) =
                  Reading(f, IF ParentType(circuit, selected) = "and" THEN "held" ELSE "open")]_editVars

(* Whether every step before a gate in series holds. *)
Reached(root, found, id) ==
    \A group \in GroupsOf(root) :
        group.type = "and" =>
            \A k \in DOMAIN group.children :
                id \in GatesOf(group.children[k]) =>
                    \A j \in 1 .. k - 1 : Evaluate(group.children[j], found) = "held"

(* The coil lights exactly for what the evaluation says is a match, the lit  *)
(* gates are those whose own finding and every step before them in series    *)
(* hold, and a gate is said to have no power only if a step before it does   *)
(* not hold: the two walks of the tree, of the backtest and of the drawing,  *)
(* agree on every gate of every circuit that edits lead to.                  *)
PowerAgrees ==
    \A found \in AllFindings(GatesOf(circuit)) :
        LET power == PowerPath(circuit, found) IN
        /\ {gate.id : gate \in power.gates} = GatesOf(circuit)
        /\ power.pout <=> Evaluate(circuit, found) = "held"
        /\ \A gate \in power.gates :
            /\ GateTag(gate, found) = "carried power"
                   <=> found[gate.id] = "held" /\ Reached(circuit, found, gate.id)
            /\ PowerText(gate, found) = "no power reached this gate"
                   <=> ~Reached(circuit, found, gate.id)

(* Two gates are in series if the group where they part is an AND. *)
Series(root, a, b) ==
    \E group \in GroupsOf(root) :
        /\ group.type = "and"
        /\ \E j, k \in DOMAIN group.children :
              j < k /\ a \in GatesOf(group.children[j]) /\ b \in GatesOf(group.children[k])

(* No group is empty: one that is has no width, and the drawing no place for *)
(* what comes after it.                                                      *)
Drawable(root) == \A group \in GroupsOf(root) : group.children # <<>>

(* The sets of gates that are live together, for some transaction. *)
LiveSets(node) == {Live(node, found) : found \in [GatesOf(node) -> {"held", "open"}]}

(* In a drawing at any width, folded or not, power has come through a live   *)
(* gate and held on it before it reaches a live gate further on in series,   *)
(* and all of them before it reaches the coil.                               *)
PowerInOrder ==
    Drawable(circuit) =>
    \A box \in Boxes :
        LET places == Places(circuit, box)
            coil == CoilPlace(circuit, box)
            inSeries == {pair \in GatesOf(circuit) \X GatesOf(circuit) : Series(circuit, pair[1], pair[2])} IN
        \A live \in LiveSets(circuit) :
            LET reached == [id \in live |-> DelayAt(places[id], places, live)] IN
            \A a \in live :
                /\ \A b \in live : <<a, b>> \in inSeries => reached[a] + Hold < reached[b]
                /\ reached[a] + Hold < DelayAt(coil, places, live)
=============================================================================
