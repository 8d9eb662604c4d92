SPECIFICATION SpecOfAll
CONSTANTS
    None = None
    EpochSteps = 3
    TotalEpochs = 2
    TotalSteps = 7
    SaveFreq = 2
    TestFreq = 2
    CriticWarmup = 2
    MaxStarts = 3
    l_EpochSteps = 2
    l_TotalEpochs = 3
    l_TotalSteps = 5
    l_CriticWarmup = 2
    FilterGroups = TRUE
    q_EpochSteps = 2
    q_TotalEpochs = 3
    q_SaveFreq = 1
    q_CriticWarmup = 2
    TriggerSteps = 2
    KeepMax = 2
    MaxVersion = 5
    MaxCrashes = 2
INVARIANTS
    TypesOK
    StaysOneStepBehind
    TrainersGoOnInTurn
    CheckpointsFitTogether
PROPERTIES
    NoGenerationAcrossSync
CHECK_DEADLOCK FALSE
