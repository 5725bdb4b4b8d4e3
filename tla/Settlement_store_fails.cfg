SPECIFICATION FairSpec
CONSTANTS
    alice = alice
    bob = bob
    None = None
    Accounts <- TwoAccounts
    Capacity = 3
    MaxUpdates = 2
    MaxBlobs = 2
    MaxFaults = 1
    Faults = {"store"}
CHECK_DEADLOCK FALSE
PROPERTY
    BatchesAreTaken
