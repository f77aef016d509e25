SPECIFICATION BackfillSpec
CONSTANTS
    x = x
    y = y
    Daemon = daemon
    Delivery = {1, 2, 3}
    Cli = {x, y}
    ShardI <- XFirst
    ShardN <- TwoShards
    IncludeFailed = {}
    Excluded = {2, 3}
    PageSize = 2
    MaxAttempts = 1
    MaxVersion = 1
    MaxLog = 1
    MaxStops = 0
INVARIANT
    WalkMissesNothing
