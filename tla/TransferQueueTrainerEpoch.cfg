SPECIFICATION Spec
CONSTANTS
    None = None
    EpochSteps = 2
    TotalEpochs = 3
    SaveFreq = 1
    CriticWarmup = 2
    MaxStarts = 2
INVARIANTS
    EveryEpochIsTrained
CHECK_DEADLOCK FALSE
