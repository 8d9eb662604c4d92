SPECIFICATION SpecOfAll
CONSTANTS
    None = None
    MaxItems = 6
    MaxSets = 3
    Workloads = {0, 1, 3}
INVARIANTS
    RowsKeepTheirSample
    PartitionsAreFair
    MicroBatchesCanBeUndone
    RanksAreBalanced
    TokensAreCredited
    GroupsAreCompared
    BaselinesFit
CHECK_DEADLOCK FALSE
