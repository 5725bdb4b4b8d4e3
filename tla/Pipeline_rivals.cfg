SPECIFICATION FairSpec
CONSTANTS
    alice = alice
    bob = bob
    carol = carol
    None = None
    Accounts <- ThreeAccounts
    Genesis <- SmallGenesis
    Txs <- RivalSends
    MaxFaults = 1
INVARIANT
    TypeOK
PROPERTY
    EveryTransactionAnswered
CHECK_DEADLOCK FALSE
