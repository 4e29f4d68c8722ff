---------------------------- MODULE ConditionTree ----------------------------
(***************************************************************************)
(* A circuit's condition tree and what the console does with one: the       *)
(* composer's edits, the three-valued evaluation of a backtest, and the     *)
(* path that power takes through the drawing.                               *)
(*                                                                         *)
(* A gate stands for its comparison and carries only its id.  A group has   *)
(* an id as well, which nothing here looks at.                              *)
(***************************************************************************)
EXTENDS Integers, SequencesExt

CONSTANTS
    Gates,      \* the ids that gates have: numbers
    MaxNesting  \* how deep groups are in groups, at most

ASSUME NestingAssumption == MaxNesting \in Nat

Gate(id) == [type |-> "comparison", id |-> id]

Group(type, children) == [type |-> type, children |-> children]

(* The trees with groups in groups no deeper than this. *)
Nested[depth \in Nat] ==
    IF depth = 0 THEN [type : {"comparison"}, id : Gates]
    ELSE [type : {"and", "or"}, children : Seq(Nested[depth - 1])] \union Nested[depth - 1]

Trees == Nested[MaxNesting]

IsGroup(node) == node.type # "comparison"

Children(node) == IF IsGroup(node) THEN ToSet(node.children) ELSE {}

(* A node and every node under it. *)
NodesOf(node) ==
    LET nodes[n \in Trees] == {n} \union UNION {nodes[child] : child \in Children(n)}
    IN  nodes[node]

GroupsOf(node) == {n \in NodesOf(node) : IsGroup(n)}

GatesOf(node) == {n.id : n \in NodesOf(node) \ GroupsOf(node)}

(* Nodes have ids of their own: no gate is in the tree twice. *)
GatesDiffer(root) ==
    \A group \in GroupsOf(root) : \A j, k \in DOMAIN group.children :
        j # k => GatesOf(group.children[j]) \intersect GatesOf(group.children[k]) = {}

(* The kind of group that a gate is directly in, parentOf. *)
ParentType(root, id) == (CHOOSE group \in GroupsOf(root) : Gate(id) \in ToSet(group.children)).type

------------------------------------------------------------------------------
(* Edits. *)

Opened(child, type) == IF child.type = type THEN child.children ELSE <<child>>

Unwrapped(child) ==
    IF IsGroup(child) /\ Len(child.children) = 1 THEN child.children[1] ELSE child

(* Groups of their parent's type are opened, and then those with a single *)
(* child are unwrapped.                                                    *)
Normalize(node) ==
    LET normal[n \in Trees] ==
            IF ~IsGroup(n) THEN n
            ELSE LET folded == FlattenSeq([k \in DOMAIN n.children |->
                                              Opened(normal[n.children[k]], n.type)])
                 IN  Group(n.type, [k \in DOMAIN folded |-> Unwrapped(folded[k])])
    IN  normal[node]

Rooted(node) == IF IsGroup(node) THEN node ELSE Group("and", <<node>>)

(* Mutant: a new gate goes next to the selected one, whatever they are in. *)
AnySplices(type, kind) == TRUE

(* A group of the kind takes a new gate among its own. *)
Splices(type, kind) == type = kind

Insert(root, id, kind, fresh) ==
    LET insert[n \in Trees] ==
            IF n = Gate(id) THEN Group(kind, <<n, Gate(fresh)>>)
            ELSE IF Gate(id) \in Children(n) /\ Splices(n.type, kind)
            THEN LET at == CHOOSE k \in DOMAIN n.children : n.children[k] = Gate(id)
                 IN  Group(n.type, InsertAt(n.children, at + 1, Gate(fresh)))
            ELSE IF IsGroup(n) THEN Group(n.type, [k \in DOMAIN n.children |-> insert[n.children[k]]])
            ELSE n
    IN  insert[root]

AddSibling(root, id, kind, fresh) == Rooted(Normalize(Insert(root, id, kind, fresh)))

Prune(root, id) ==
    LET pruned[n \in Trees] ==
            IF ~IsGroup(n) THEN n
            ELSE Group(n.type, FlattenSeq([k \in DOMAIN n.children |->
                     IF n.children[k] = Gate(id) THEN <<>> ELSE <<pruned[n.children[k]]>>]))
    IN  pruned[root]

RemoveNode(root, id) == Rooted(Normalize(Prune(root, id)))

------------------------------------------------------------------------------
(* Proposals. *)

(* Some gates in a row, numbered on from an id. *)
Numbered(count, from) == [k \in 1 .. count |-> Gate(from + k - 1)]

Unrecognised(reading) == IF reading.unrecognised THEN 1 ELSE 0

GatesRead(reading) == Unrecognised(reading) + reading.tokens + reading.tests

(* The tree of a sentence, from what was read in it: that the token is       *)
(* unrecognised, how many tokens, and how many other tests, of an amount and *)
(* of addresses.  One of several tokens will do.                             *)
ParseSentence(reading) ==
    LET tokens == Numbered(reading.tokens, Unrecognised(reading) + 1)
        tests == Numbered(reading.tests, Unrecognised(reading) + reading.tokens + 1)
    IN  Normalize(Group("and",
            Numbered(Unrecognised(reading), 1)
                \o (IF reading.tokens > 1 THEN <<Group("or", tokens)>> ELSE tokens)
                \o tests))

------------------------------------------------------------------------------
(* Evaluation and power. *)

(* What a gate can be found to be: null, in the code, is unknown. *)
Findings == {"held", "open", "unknown"}

(* A group's finding, from its children's. *)
Finding(type, kids) ==
    CASE type = "and" /\ "open" \in kids -> "open"
      [] type = "or" /\ "held" \in kids  -> "held"
      [] OTHER -> IF "unknown" \in kids THEN "unknown"
                  ELSE IF type = "and" THEN "held" ELSE "open"

(* A whole tree's finding, from its gates'. *)
Evaluate(node, found) ==
    LET finding[n \in Trees] ==
            IF IsGroup(n) THEN Finding(n.type, {finding[child] : child \in Children(n)})
            ELSE found[n.id]
    IN  finding[node]

(* Mutant: every step of a series starts from the power into the series. *)
FromTheRail(pin, kids, k) == pin

(* The power into a step of a series: what the step before lets out. *)
CarriedTo(pin, kids, k) == IF k = 1 THEN pin ELSE kids[k - 1].pout

(* Where power went: what came out, and each gate's power in and out. *)
Walk(node, found, power) ==
    LET walked[n \in Trees] == [pin \in BOOLEAN |->
            IF ~IsGroup(n)
            THEN LET out == pin /\ found[n.id] = "held"
                 IN  [pout |-> out, gates |-> {[id |-> n.id, pin |-> pin, pout |-> out]}]
            ELSE LET kids[k \in DOMAIN n.children] ==
                         walked[n.children[k]][IF n.type = "and" THEN CarriedTo(pin, kids, k) ELSE pin]
                 IN  [pout  |-> IF n.type = "and" THEN CarriedTo(pin, kids, Len(n.children) + 1)
                                ELSE pin /\ \E k \in DOMAIN kids : kids[k].pout,
                      gates |-> UNION {kids[k].gates : k \in DOMAIN kids}]]
    IN  walked[node][power]

PowerPath(condition, found) == Walk(condition, found, TRUE)

Live(condition, found) == {g.id : g \in {g \in PowerPath(condition, found).gates : g.pout}}

(* How a gate is reported: its tag, and why it passed nothing on. *)
GateTag(gate, found) ==
    CASE gate.pout -> "carried power"
      [] ~gate.pout /\ found[gate.id] = "unknown" -> "no data"
      [] OTHER -> "blocked"

(* And what is said of the power at it. *)
PowerText(gate, found) ==
    CASE ~gate.pin -> "no power reached this gate"
      [] gate.pout -> "passed through"
      [] OTHER -> IF found[gate.id] = "unknown" THEN "no data to test" ELSE "stopped here"
=============================================================================
