SPECIFICATION Spec
CONSTANTS
    Account <- MCAccount
    Hash <- MCHash
    Block <- MCBlock
    NoHash = "nohash"
    NoAccount = "zero"
    GenesisAccount = "g"
    GenesisHash = "genesis"
    GenesisAmount = 4
INVARIANTS
    TypeOK
    SupplyConserved
    WeightConserved
    BalancesMatchChains
    PendingExact
    ChainsDoNotFork
    
    RollbackFindsTarget
    CallsNested
PROPERTIES
    ChecksumFollowsHeads
    RollbackEnds
