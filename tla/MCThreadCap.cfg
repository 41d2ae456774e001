CONSTANTS
    Bound = 4
    Env <- AllEnvs
    Wants <- AllWants
    MoeFixed = 5
    Cands = {1, 3, 8}
    IsoCands = {2, 9}
    NoCap = none
    Experts = {"e1", "e2"}
    RowMajor = {"wo_a"}
    Projections = {"q", "o"}
    Gates = {"gate"}
    Modes <- AllModes
    Checkpoints <- AllCheckpoints
    NoLayer = nolayer
SPECIFICATION MCSpec
INVARIANTS
    Restored
    CapsAreSound
    WeightsKept
    ProbesTellTheTruth
