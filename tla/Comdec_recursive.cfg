CONSTANTS
    MaxDigrams = 999983
    MaxSymbols = 1000000
    Letters <- ThreeLetters
    BlockSize = 40
    MaxInput = 35
SPECIFICATION Spec
CONSTRAINT Scripted
INVARIANTS NoRecursiveRule
CHECK_DEADLOCK FALSE
