CONSTANTS
    NoKept = none
    Indexed <- TwoIndexed
    Ratio = 2
    TopK = 1
    Window = 4
    MaxBatch = 2
    MaxPos = 6
    MaxTokens = 5
SPECIFICATION Spec
INVARIANTS
    SelectionStays
    MasksAgree
    SelectionExact
