SPECIFICATION MCServeSpec
CONSTANTS
    MaxHeight = 3
    ForkHeight = 9
    OddBlocks = {}
    NoBlock <- MCNoBlock
    Block <- MCBlock
    HeightOf <- MCHeightOf
    ParentOf <- MCParentOf
    CommitFor <- MCCommitFor
    Ancestry <- MCAncestry
    Checkpoints <- MCCheckpoints
    Malformed <- MCMalformed
    BadCommit <- MCBadCommit
    Unsigned <- MCUnsigned
    WrongValidators <- MCWrongValidators
    MainChain <- MCMainChain
    Starts = {1, 2, 3}
    Worker = {w1, w2}
    Refresher = {r1, r2}
    Client = {c1}
    Burst = 1
    MaxBudgets = 1
    QueueLimit = 1
    FetchSlots = 1
    CacheBlocks = 2
    Errors = {"manifest", "segment", "ctx"}
    MaxErrors = 1
    ServeTop = 2
INVARIANTS
    ServeTypeOK
    ServedBlock
    SlotsAccounted
    SharedLoad
    AdvertisedServable
PROPERTIES
    WorkersReturn
