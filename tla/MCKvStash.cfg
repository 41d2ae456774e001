CONSTANTS
    Req = {r1, r2}
    PageSize = 4
    NumPages = 2
    MaxLen = 5
    MaxBatch = 2
    MinCap = 3
    Window = 2
    NoRow = none
    Ratios = {2, 4}
SYMMETRY ReqSymmetry
SPECIFICATION StashSpec
INVARIANTS
    TypeOK
    AllocatorExact
    LocationsExact
    StashExact
    DenseAloneExact
PROPERTIES
    WriteIsLocal
