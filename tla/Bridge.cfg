SPECIFICATION BridgeSpec
CONSTANTS
    deposits = deposits
    alice = alice
    send = send
    None = None
    Streams = {deposits}
    Deposits = deposits
    Sends = {send}
    Users = {alice}
    UserOf <- AllOfAlice
    MaxBlock = 2
    MaxFaults = 1
    MaxCrashes = 1
INVARIANTS
    FileIsSound
    DepositsAreReal
    SavedIsCredited
    SkippedOnlyBelowRestart
PROPERTIES
    OnlyTheSavedBlockAgain
    EveryDepositPersisted
