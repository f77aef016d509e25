SPECIFICATION FairSpec
CONSTANTS
    x = x
    y = y
    Daemon = daemon
    Delivery = {1, 2}
    Cli = {}
    ShardI <- NoShard
    ShardN <- OneShard
    IncludeFailed = {}
    Excluded = {}
    PageSize = 1
    MaxAttempts = 2
    MaxVersion = 1
    MaxLog = 3
    MaxStops = 2
INVARIANT
    SeqMeansAttempted
PROPERTIES
    DrainEnds
    EventuallyPassed
