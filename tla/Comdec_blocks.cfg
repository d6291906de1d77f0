CONSTANTS
    MaxDigrams = 999983
    MaxSymbols = 1000000
    Letters <- TwoLetters
    BlockSize = 10
    MaxInput = 11
SPECIFICATION Spec
INVARIANTS TypeOK GrammarDerivesInput SymbolsAccounted DigramUniqueness RoundTrip GrammarsArrive
PROPERTY BlocksAreFull
CHECK_DEADLOCK FALSE
