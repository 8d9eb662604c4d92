SPECIFICATION Spec
CONSTANTS
    Total = 6
    RequiredSamples = 2
    TriggerSteps = 1
    MaxRequired = 2
    MaxConcurrent = 2
    PendingSize = 2
    End = End
CHECK_DEADLOCK FALSE
PROPERTIES
    TrainerIsFed
