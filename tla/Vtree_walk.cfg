CONSTANTS
    Trees <- SmallTrees
    Options <- SomeOptions
    Arguments <- SomeArguments
    MaxVDepth = 4
    MaxTables = 2
    IntSize = 1024
    MaxVanish = 1
SPECIFICATION Spec
INVARIANTS TypeOK Conserved CountedOnce AllCounted BranchesLeft NamesAtHome
PROPERTY Terminates
CHECK_DEADLOCK FALSE
