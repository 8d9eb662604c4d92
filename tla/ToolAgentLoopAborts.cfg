SPECIFICATION Spec
CONSTANTS
    PromptLength = 2
    ResponseLength = 4
    MaxAssistantTurns = 3
    MaxUserTurns = 0
    MaxParallelCalls = 1
    MaxParsedCalls = 1
    MaxVersion = 0
    Answers = {"text"}
    WithLogprobs = TRUE
    Aborts = TRUE
    None = None
INVARIANT
    EveryResponseTokenIsMasked
CHECK_DEADLOCK FALSE
