CONSTANTS
    NumLayers = 1
    Ratio <- RatioC4
    Row = {r1, r2}
    Rid = {a, b, c, d, e}
    NoRid = none
    MinPrompt = 3
    MaxPrompt = 9
    MaxGen = 2
    MaxBatch = 2
    Chunk = 9
    PrefixHit = {0}
SYMMETRY RowSymmetry
SPECIFICATION Spec
INVARIANTS
    NoCrossRequestBlock
