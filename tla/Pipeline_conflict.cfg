SPECIFICATION Spec
CONSTANTS
    alice = alice
    bob = bob
    carol = carol
    None = None
    Accounts <- ThreeAccounts
    Genesis <- SmallGenesis
    Txs <- RivalTxs
    MaxFaults = 0
INVARIANT
    NoConflictScheduled
