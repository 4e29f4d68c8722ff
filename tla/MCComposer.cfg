SPECIFICATION Spec
CONSTANTS
    None = None
    small = small
    large = large
    blank = blank
    s1 = s1
    s2 = s2
    Complete = {small, large}
    Incomplete = {blank}
    Sentences = {s1, s2}
    First = s1
    Proposed <- SmallProposed
    MaxWritten = 2
    MaxToggles = 1
    MaxWires = 1
    MaxSaves = 1
INVARIANTS
    NothingCarriedOver
    QuietShowsSaved
PROPERTIES
    BacktestSettles
