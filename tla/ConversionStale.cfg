SPECIFICATION Spec
CONSTANTS
    x = x
    y = y
    Daemon = daemon
    Delivery = {1}
    Cli = {}
    ShardI <- NoShard
    ShardN <- OneShard
    IncludeFailed = {}
    Excluded = {}
    PageSize = 1
    MaxAttempts = 2
    MaxVersion = 2
    MaxLog = 3
    MaxStops = 2
INVARIANT
    MarksAreAlwaysCurrent
