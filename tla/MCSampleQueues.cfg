SPECIFICATION SpecOfAll
CONSTANTS
    Total = 9
    RequiredSamples = 1
    TriggerSteps = 2
    MaxRequired = 3
    MaxConcurrent = 2
    PendingSize = 1
    End = End
    None = None p1 = p1 p2 = p2 s1 = s1 s2 = s2
INVARIANTS
    TypesOK
    RolloutNumWithinOne
    EndMarkComesLast
    SamplesAreOfTheBatch
PROPERTIES
    StaleBacklogBounded
    StreamsEnd
CHECK_DEADLOCK FALSE
