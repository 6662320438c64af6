SPECIFICATION MCSpec
CONSTANTS
    CasKey = {m}
    OnceKey = {s}
    Caller = {c1, c2}
    Data = {d1, d2}
    Absent = Absent
    Torn = Torn
    NoOne = NoOne
    Calls <- MCCalls
    MaxLate = 1
    Worker = {w1, w2}
    Commands = {"verify", "hydrate"}
    Segments = 3
    SegmentSize = 2
    BlockBytes <- MCBlockBytes
    MaxBlockBytes = 3
    Hydrations <- MCHydrations
INVARIANTS
    StoreTypeOK
    NoFalseSuccess
    CacheIsNewest
PROPERTIES
    IsAtomicStore
    CommandReturns
CHECK_DEADLOCK FALSE
