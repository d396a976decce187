SPECIFICATION Spec
CONSTANTS
    Account = {"g", "a"}
    Hash <- MCHash
    Block <- MCBlock
    NoHash = "nohash"
    NoAccount = "zero"
    GenesisAccount = "g"
    GenesisHash = "genesis"
    GenesisAmount = 2
    Thread = {"network", "pull"}
    Callers <- MCCallers
    MaxGaps = 2
INVARIANTS
    TypeOK
    OrderDoesNotMatter
    GapsAreOpen
PROPERTY LoopEnds
