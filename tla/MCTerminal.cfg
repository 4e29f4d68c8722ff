SPECIFICATION Spec
CONSTANTS
    None = None
    Codes <- SmallCodes
    MaxQueue = 2
    MaxRuns = 3
    MaxBytes = 1
    Searches <- SmallSearches
    Plain = "plain"
    Typed <- SmallTyped
    Nothing = Nothing
INVARIANTS
    NoStuckKey
    PhaseOfItsRun
    ProgressShown
    KeyboardOfOne
PROPERTIES
    LoadingEnds
    BackAsLeft
