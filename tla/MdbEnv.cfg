SPECIFICATION EnvSpec
CONSTANTS
    Thread = {"t1", "t2", "t3"}
    Nester = {"t1"}
    CheckInterval = 2
    SizeIncrement = 16
    MaxGrowth = 1
    MaxLoad = 18
INVARIANTS
    MapSuffices
PROPERTIES
    ResizesAlone
    TransactionOpens
CHECK_DEADLOCK FALSE
