SPECIFICATION FairSpec
CONSTANTS
    alice = alice
    bob = bob
    None = None
    Accounts <- TwoAccounts
    Capacity = 3
    MaxUpdates = 2
    MaxBlobs = 2
    MaxFaults = 2
    Faults <- AllFaults
CHECK_DEADLOCK FALSE
INVARIANTS
    TypeOK
    NoUpdateLost
    CacheIsBlob
    IndexIsRetrievable
PROPERTY
    EveryUpdateSettles
