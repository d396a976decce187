SPECIFICATION PoolSpec
CONSTANTS
    Worker = {"w1", "w2"}
    Caller = {"c1", "c2"}
    Roots <- DisjointRoots
    NoRoot = "zero"
    NoThread = "none"
    MaxCalls = 3
INVARIANTS
    ResultsAwaited
PROPERTIES
    GenerateReturns
    WorkersExit
CHECK_DEADLOCK FALSE
