SPECIFICATION FairSpec
CONSTANTS
    c1 = c1
    c2 = c2
    t1 = t1
    t2 = t2
    r1 = r1
    p1 = p1
    p2 = p2
    content = content
    None = None
    Calls = {c1, c2}
    Registrations = {r1}
    Txs = {t1, t2}
    MayBe <- AgainOrOther
    Programs = {p1, p2}
    ProgramOf <- OneEach
    ContentIds = {content}
    ContentOf <- OneContent
INVARIANTS
    TypeOK
    HandleFound
    OutputsAreOwn
    AnnouncedIsBundled
PROPERTIES
    EveryCallEnds
    EveryRegistrationEnds
CHECK_DEADLOCK FALSE
