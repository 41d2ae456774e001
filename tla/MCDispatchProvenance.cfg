CONSTANTS
    Options <- MCOptions
    Answers <- MCAnswers
    AgreeMins = {98, 25, 0}
    MaxForwards = 2
SPECIFICATION TimedSpec
CHECK_DEADLOCK FALSE
INVARIANTS
    CountsExact
    PairedGateIsAboutKernels
    ReadingsExact
PROPERTIES
    SweepEnds
