SPECIFICATION SpecOfAll
CONSTANTS
    Standalone = {s1}
    Hybrid = {h1}
    Training = {c1, c2}
    Validating = {v1, v2}
    MaxVersion = 2
    None = None
    NoByte = NoByte
    r1 = r1 r2 = r2
INVARIANTS
    TypesOK
    ValidationIsSafe
PROPERTIES
    BuffersAreRespected
    AllImplementChannel
    UpdatesEnd
CHECK_DEADLOCK FALSE
