CONSTANTS
    M = 8
    PageUnits = 9
    MaxPages = 2
    Origin = 1
    Sizes <- SmallSizes
    Alignments <- SmallAlignments
    MaxHeld = 3
SPECIFICATION Spec
INVARIANTS TypeOK BlocksTile FiledOnce FootersMatch
PROPERTY GrowsWhenNeeded
CHECK_DEADLOCK FALSE
