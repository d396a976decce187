SPECIFICATION ServiceSpec
CONSTANTS
    Runner = {"r1", "r2"}
    Poller = {"p"}
    Operation = {"o1", "o2", "o3"}
    Nothing = "nothing"
    MaxTime = 3
INVARIANTS
    NobodyOversleeps
PROPERTIES
    KeepsPromise
    RunnersExit
CHECK_DEADLOCK FALSE
