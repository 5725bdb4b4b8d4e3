SPECIFICATION IsolatedSpec
CONSTANTS
    alice = alice
    bob = bob
    carol = carol
    None = None
    Accounts <- ThreeAccounts
    Genesis <- SmallGenesis
    Txs <- MixedTxs
    MaxFaults = 1
INVARIANT
    FirstForAccount
