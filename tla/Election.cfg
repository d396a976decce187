SPECIFICATION Spec
CONSTANTS
    anonymous = anonymous
    r1 = r1
    r2 = r2
    Voter <- MCVoter
    Weight <- MCWeight
    Anonymous = anonymous
    Candidate = {"send", "rival"}
    NoBlock = "none"
    MaxSequence = 1
    Supply = 16
    Local = {}
CHECK_DEADLOCK FALSE
INVARIANTS
    
    ConfirmedOnce
PROPERTY ElectionEnds
