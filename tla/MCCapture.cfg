CONSTANTS
    NumLayers = 2
    Group = 3
    Frozen <- MCFrozen
    Requests = {"b", "c", "long", "token"}
    TokensIn <- MCTokensIn
    Constant = {"dummy", "profile"}
    Options <- MCOptions
    Limits <- MCLimits
    MaxWork = 4
    Jobs <- MCJobs
    CaptureJob <- MCCaptureJob
SPECIFICATION EngineSpec
CHECK_DEADLOCK FALSE
INVARIANTS
    FilesSurvive
    LegsPair
    HooksStand
    EngineServes
