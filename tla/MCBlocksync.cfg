SPECIFICATION SyncSpec
CONSTANTS
    MaxHeight = 3
    ForkHeight = 9
    OddBlocks = {"malformed"}
    NoBlock <- MCNoBlock
    Block <- MCBlock
    HeightOf <- MCHeightOf
    ParentOf <- MCParentOf
    CommitFor <- MCCommitFor
    Ancestry <- MCAncestry
    Checkpoints <- MCCheckpoints
    Malformed <- MCMalformed
    BadCommit <- MCBadCommit
    Unsigned <- MCUnsigned
    WrongValidators <- MCWrongValidators
    Node = {n1}
    Self = n1
    Modes = {"storage-only"}
    Peer = {1, 2}
    RequestLimit = 2
    Advertised <- MCAdvertised
    OddRanges <- MCOddRanges
    Faulty = {1}
    Misbehaviour = {"drop", "slow", "shift", "noBlock", "bad"}
    MaxFaults = 2
    LateStatus = TRUE
INVARIANTS
    SyncTypeOK
    WindowBounded
    NoStrandedBlock
    InflightServable
    ReceivedIsHeld
