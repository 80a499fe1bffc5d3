SPECIFICATION FairSpec
CONSTANTS
    Cids = {c1, c2}
    Clients = {k1}
    Queries = {q1, q2}
    NoCid = NoCid
    MaxFiles = 0
    MaxVersion = 2
INVARIANTS
    TypeOK
    FreshUnlessOverlapped
PROPERTIES
    CacheAnswersQuery
    GenerationEnds
CHECK_DEADLOCK FALSE
