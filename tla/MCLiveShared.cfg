SPECIFICATION FairSpec
CONSTANTS
    MaxHeight = 3
    ForkHeight = 9
    OddBlocks = {}
    NoBlock <- MCNoBlock
    Block <- MCBlock
    HeightOf <- MCHeightOf
    ParentOf <- MCParentOf
    CommitFor <- MCCommitFor
    Ancestry <- MCAncestry
    Checkpoints <- MCCheckpoints
    Malformed <- MCMalformed
    BadCommit <- MCBadCommit
    Unsigned <- MCUnsigned
    WrongValidators <- MCWrongValidators
    Node = {n1, n2}
    Modes = {"storage-only"}
    SegmentBlocks = 2
    SafetyWindow = 0
    RetainBlocks = 1
    FaultKinds = {"crash", "put", "cas", "get"}
    MaxFaults = 1
INVARIANTS
    AppendsValidate
PROPERTIES
    ArchiveOnlyGrows
    KeepsPromise
    EventuallyArchived
    EventuallyPruned
