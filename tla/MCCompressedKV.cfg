CONSTANTS
    NumLayers = 2
    Ratio <- RatioC4C6
    Row = {r1, r2}
    Rid = {a, b, c, d, e}
    NoRid = none
    MinPrompt = 3
    MaxPrompt = 9
    MaxGen = 2
    MaxBatch = 2
    Chunk = 4
    PrefixHit = {0, 4}
SYMMETRY RowSymmetry
SPECIFICATION Spec
INVARIANTS
    TypeOK
    HandoffFresh
    VisibleExact
    OnePassDecode
