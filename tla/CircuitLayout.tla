---------------------------- MODULE CircuitLayout ----------------------------
(***************************************************************************)
(* Where a circuit's gates are along the wire, and when power reaches them. *)
(* A circuit too wide for its box goes on in another line at its root's     *)
(* boundaries.  Only positions along the wire are kept: heights, the buses   *)
(* of parallel branches and the fold markers' shapes are left out.          *)
(***************************************************************************)
EXTENDS ConditionTree

CONSTANTS
    Width,     \* how wide each gate is drawn: even
    CoilWidth, \* how wide the coil is
    Hold       \* how far power would travel while it holds on a live gate

LEAD == 22
TAIL == 16
MARKER == 30
PAD == 20

(* The drawing's texts and the console's styles make a gate at least this wide. *)
ASSUME WidthsAssumption ==
    /\ \A id \in Gates : Width[id] \in Nat /\ Width[id] >= 104
    /\ CoilWidth \in Nat /\ Hold \in Nat

SumOf(widths) ==
    LET upTo[k \in 0 .. Len(widths)] == IF k = 0 THEN 0 ELSE upTo[k - 1] + widths[k]
    IN  upTo[Len(widths)]

(* How wide a node is.  A group with nothing in it has no width in the code;  *)
(* nothing is drawn of one.                                                   *)
Measure(node) ==
    LET width[n \in Trees] ==
            IF ~IsGroup(n) THEN Width[n.id]
            ELSE LET widths == [k \in DOMAIN n.children |-> width[n.children[k]]]
                 IN  IF n.type = "and" THEN SumOf(widths)
                     ELSE Max({0} \union ToSet(widths)) + 2 * PAD
    IN  width[node]

WidthOf(kids) == SumOf([k \in DOMAIN kids |-> Measure(kids[k])])

Natural(condition) == LEAD + Measure(condition) + 40 + CoilWidth + TAIL

Folds(condition, box) ==
    /\ Natural(condition) > box
    /\ condition.type = "and" /\ Len(condition.children) > 1

(* The root's children, line by line, with no line over the budget but for a *)
(* child that is wider by itself.                                            *)
Packed(kids, budget) ==
    LET Pack(lines, kid) ==
            IF Last(lines) # <<>> /\ WidthOf(Last(lines)) + Measure(kid) > budget
            THEN Append(lines, <<kid>>)
            ELSE Append(Front(lines), Append(Last(lines), kid))
        packed[k \in 0 .. Len(kids)] == IF k = 0 THEN <<<<>>>> ELSE Pack(packed[k - 1], kids[k])
    IN  packed[Len(kids)]

(* The last line makes room for the coil: its last child goes below. *)
WithRoom(lines, budget) ==
    IF /\ Len(lines) > 1
       /\ WidthOf(Last(lines)) + CoilWidth + 40 > budget + MARKER
       /\ Len(Last(lines)) > 1
    THEN Front(lines) \o <<Front(Last(lines)), <<Last(Last(lines))>>>>
    ELSE lines

Lines(condition, box) ==
    LET budget == box - LEAD - TAIL - 2 * MARKER - 24
    IN  IF Folds(condition, box)
        THEN WithRoom(Packed(condition.children, budget), budget)
        ELSE <<<<condition>>>>

Start(line) == IF line = 1 THEN LEAD ELSE LEAD + MARKER + 10

LineWidth(lines, line) ==
    Start(line) + WidthOf(lines[line]) + TAIL
        + (IF line = Len(lines) THEN 40 + CoilWidth ELSE MARKER + 20)

(* How wide the whole drawing is. *)
Span(condition, box) ==
    LET lines == Lines(condition, box)
        need == Max({LineWidth(lines, line) : line \in DOMAIN lines})
    IN  IF Len(lines) > 1
        THEN Max({box, need, Min({box, need + 400})})
        ELSE Max({box, Natural(condition)})

(* Mutant: each line starts over from the left rail. *)
FromTheLeft(span, line) == 0

(* How far the nodes before one in a row reach. *)
Before(kids, k) == WidthOf(SubSeq(kids, 1, k - 1))

(* How far along the wire a line starts. *)
Offset(span, line) == (line - 1) * (span - LEAD - 8)

(* A node's gates and where the middle of each is, from where the node is. *)
Draw(node, left) ==
    LET drawn[n \in Trees] == [x \in Int |->
            IF ~IsGroup(n) THEN {[id |-> n.id, gx |-> x + (Width[n.id] \div 2)]}
            ELSE UNION {drawn[n.children[k]][IF n.type = "or" THEN x + PAD
                                             ELSE x + Before(n.children, k)] : k \in DOMAIN n.children}]
    IN  drawn[node][left]

(* Every gate's place on the unfolded wire. *)
Places(condition, box) ==
    LET lines == Lines(condition, box)
        span == Span(condition, box)
        drawn == UNION {UNION {Draw(lines[line][k],
                                    Offset(span, line) + Start(line) + Before(lines[line], k)) :
                                  k \in DOMAIN lines[line]} : line \in DOMAIN lines}
    IN  [id \in GatesOf(condition) |-> (CHOOSE d \in drawn : d.id = id).gx]

CoilPlace(condition, box) ==
    LET span == Span(condition, box)
    IN  Offset(span, Len(Lines(condition, box))) + span - TAIL - (CoilWidth \div 2) - 16

(* When power reaches a place, as the way it travels by then: it holds on *)
(* every live gate before.                                                 *)
DelayAt(gx, places, live) == gx + Hold * Cardinality({id \in live : places[id] < gx - 1})
=============================================================================
