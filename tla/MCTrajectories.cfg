SPECIFICATION SpecOfAll
CONSTANTS
    Standalone = {a}
    Hybrid = {h}
    Requests = {r1, r2, r3}
    MaxTurns = 3
    CacheSize = 2
    None = None
INVARIANTS
    TypesOK
    CountsFollowTheLoad
    TrajectoriesAreWhole
    LimitsAreKept
PROPERTIES
    RoutesStayGood
    NothingIsHeldForEver
CHECK_DEADLOCK FALSE
