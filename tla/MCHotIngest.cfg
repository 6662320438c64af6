SPECIFICATION HotSpec
CONSTANTS
    MaxHeight = 5
    ForkHeight = 2
    OddBlocks = {"malformed", "detached", "badparts"}
    NoBlock <- MCNoBlock
    Block <- MCBlock
    HeightOf <- MCHeightOf
    ParentOf <- MCParentOf
    CommitFor <- MCCommitFor
    Ancestry <- MCAncestry
    Checkpoints <- MCCheckpoints
    Malformed <- MCMalformed
    BadCommit <- MCBadCommit
    Unsigned <- MCUnsigned
    WrongValidators <- MCWrongValidators
    Node = {n1}
    Modes = {"storage-only", "checkpoint", "validator-set"}
INVARIANTS
    HotTypeOK
    StoreLinked
    AuthenticatedPrefix
PROPERTY
    LimitMonotone
