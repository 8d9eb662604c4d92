SPECIFICATION SpecOfAll
CONSTANTS
    Samples = {s1, s2}
    MaxChunks = 2
    MaxPasses = 3
    NQuestions = 3
    NProc = 2
    MaxRuns = 3
INVARIANTS
    TypesOK
    PassesAreReadWhole
    AnswersHaveAReason
    OthersReadAndAnswer
PROPERTIES
    WorkflowIsKept
    OthersImplementWorkflow
    ReadersEnd
    AnswersAreKept
CHECK_DEADLOCK FALSE
