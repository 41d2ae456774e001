CONSTANTS
    Slot = {s1, s2}
    Rid = {a, b, c, d}
    NoRid = none
    Kernel = 4
    Chunk = 4
    MaxPrompt = 6
    MaxGen = 3
SYMMETRY KdaSymmetry
SPECIFICATION Spec
INVARIANTS
    RecurrenceExact
    ConvExact
