SPECIFICATION Spec
CONSTANTS
    Chain <- MCChain
    Genesis <- MCGenesis
    NoHash = "none"
    Window = 2
    Disconnects = 1
    Arrivals = 1
INVARIANTS
    SessionConverges
    PushedInOrder
PROPERTIES
    PulledIsKept
    SessionEnds
CHECK_DEADLOCK FALSE
