SPECIFICATION LiteralFairSpec
CONSTANTS
    Threads   = {t1, t2}
    Names     = {a, b}
    Literals  = {a, long}
    NoName    = NoName
    NULL      = NULL
    Hash      <- Colliding
    Text      <- OwnWords
    StartSize = 2
    PoolSize  = 2
    MaxBlocks = 3
INVARIANTS
    MutualExclusion
    PointerEquality
    IndexInPool
    PublishedAlive
    NoBlockLost
PROPERTIES
    BindsOnce
    WrittenOnce
    Progress
