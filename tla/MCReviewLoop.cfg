CONSTANTS
    MaxIterations = 2
    MaxRuns = 2
SPECIFICATION FairSpec
CHECK_DEADLOCK FALSE
INVARIANTS
    RecordsAgree
PROPERTIES
    VerdictIsObeyed
    RunEnds
