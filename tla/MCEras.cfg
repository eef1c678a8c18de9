CONSTANTS
    GenesisHashes <- MCGenesisHashes
    InitNonces <- MCInitNonces
    Updates <- MCUpdates
    Vrfs = {1, 2, 0}
    BadVrfs = {0}
    GenesisBytes <- MCGenesisBytes
    MaxBlocks = 3
    MaxUpdates = 2
SPECIFICATION Spec
INVARIANT NonceIsRollingHash
CHECK_DEADLOCK FALSE
