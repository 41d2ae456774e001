CONSTANTS
    Layouts <- SmallLayouts
    Grade <- Grades
    MaxShards = 3
SPECIFICATION Spec
INVARIANTS
    FilesExact
    CombineExact
    TailExact
PROPERTIES
    ImplementsCheckpoint
    RunIsCombined
