CONSTANTS
    MaxScore = 2
    VW = 2
    Block = 2
    SmallWork = 8
    RowGrain = 1
    Tile = 2
    Fp32MaxS = 2
    MaxTile = 4
    MaxN = 2
    MaxD = 5
    MaxThreads = 4
    WindowLen = 3
    MaxValue = 21
    Pairs = 2
    FpMax = 6
    Bias = 3
SPECIFICATION KernelSpec
CHECK_DEADLOCK FALSE
INVARIANTS
    CutsExact
    ValuesExact
