SPECIFICATION Spec
CONSTANTS
    Own = {"a"}
    Send <- MCSend
    Change <- MCChange
    NoRequest <- MCNoRequest
    NoAccount = "nobody"
    Confirmations = 1
INVARIANTS
    OwnBlocksAccepted
    WorkReady
PROPERTIES
    SearchFindsAll
    EverythingDone
    SearchEnds
CHECK_DEADLOCK FALSE
