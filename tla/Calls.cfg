SPECIFICATION Spec
CONSTANTS
    alice = alice
    bob = bob
    carol = carol
    shop = shop
    club = club
    kit = kit
    eth = eth
    n1 = n1
    n2 = n2
    None = None
    This = This
    Namespace = Namespace
    Addresses <- AllAddresses
    Native = {eth}
    Ids = {n1, n2}
    MaxUint = 3
    Keys = {"k", "content"}
    Values = {0, 1, 2}
    Genesis <- SmallGenesis
    Calls <- MixedCalls
    LateReads = {"checking", "counting", "answering", "registering"}
    MaxLate = 1
    MaxCalls = 2
INVARIANTS
    TypeOK
    DebitsAreAuthorized
    SpendersAreTheOwners
PROPERTIES
    ImplementsProgramLedger
    EveryCallAnswered
CHECK_DEADLOCK FALSE
