SPECIFICATION FairSpec
CONSTANTS
    bridge = bridge
    settle = settle
    None = None
    Streams <- BothStreams
    MaxBlock = 2
    MaxFaults = 2
    MaxCrashes = 0
INVARIANTS
    TypeOK
    NoneSkipped
    CastOnce
PROPERTY
    EveryEventIsCast
