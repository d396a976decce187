SPECIFICATION Spec
CONSTANTS
    Account <- MCAccount
    Hash <- RepHash
    Block <- RepBlock
    NoHash = "nohash"
    NoAccount = "zero"
    GenesisAccount = "g"
    GenesisHash = "genesis"
    GenesisAmount = 4
INVARIANT WeightIsThere
