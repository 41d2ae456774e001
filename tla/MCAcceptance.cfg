CONSTANTS
    IndexerM = {1, 8, 16, 32, 64}
    Bf16M = {1, 32}
    SparseM = {1, 8, 16, 32, 64}
    SparseSweep <- Sweep
    RequiredSparsePaths = {"scalar", "fp32bmm", "bestof"}
    Shapes = {1, 2, 3}
    SeedGroups <- Groups
    MaxCommits = 2
SPECIFICATION Spec
INVARIANTS
    ExitIsHonest
    BudgetRestsOnAllSeeds
    PromotesOnlyInRace
