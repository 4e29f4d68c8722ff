SPECIFICATION EditSpec
CONSTANTS
    Gates <- SmallGates
    MaxNesting = 4
    Readings <- SmallReadings
    Saved <- SmallSaved
    Boxes <- SmallBoxes
    Width <- SmallWidth
    CoilWidth = 116
    Hold = 492
INVARIANTS
    PowerAgrees
    PowerInOrder
PROPERTIES
    EditsAsWired
