SPECIFICATION Spec
CONSTANTS
    TriggerSteps = 2
    SaveFreq = 1
    KeepMax = 1
    MaxVersion = 3
    MaxCrashes = 1
CHECK_DEADLOCK FALSE
INVARIANTS
    TrackerIsLoadable
