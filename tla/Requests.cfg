SPECIFICATION FairSpec
CONSTANTS
    s1 = s1
    s2 = s2
    c1 = c1
    g1 = g1
    a1 = a1
    tSend = tSend
    tCall = tCall
    tReg = tReg
    tNone = tNone
    None = None
    Rpc = Rpc
    Scheduler = Scheduler
    Actors = {Rpc, Scheduler}
    Requests <- FiveRequests
    Method <- Methods
    Tx <- Transactions
    Txs = {tSend, tCall, tReg, tNone}
    MaxRequests = 2
    MaxPanics = 2
    Capacity = 1
CHECK_DEADLOCK FALSE
INVARIANTS
    TypeOK
    AnswerIsTrue
PROPERTIES
    AnswerReachesClient
    EveryRequestReturns
    RespawnedUnlessEarly
