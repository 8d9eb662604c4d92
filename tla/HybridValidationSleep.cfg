SPECIFICATION Spec
CONSTANTS
    Standalone = {s1}
    Hybrid = {h1}
    Training = {c1}
    Validating = {v1, v2}
    MaxVersion = 1
    None = None
INVARIANTS
    NoGenerationAsleep
CHECK_DEADLOCK FALSE
