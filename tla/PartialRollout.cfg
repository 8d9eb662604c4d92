SPECIFICATION Spec
CONSTANTS
    Requests = {r1, r2}
    Servers = {s1, s2}
    Partial = TRUE
    PromptLength = 1
    ResponseLength = 2
    Limits = {2}
    MaxVersion = 2
    None = None
INVARIANTS
    BudgetKept
    ResponsesAreWhole
PROPERTIES
    EveryRequestReturns
CHECK_DEADLOCK FALSE
