SPECIFICATION Spec
CONSTANTS
    r1 = r1
    r2 = r2
    Voter = {r1, r2}
    Weight <- MCWeight
    Candidate = {"send", "rival"}
    NoBlock = "none"
    MaxSequence = 2
PROPERTY VotesIncrease
