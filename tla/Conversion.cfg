SPECIFICATION Spec
CONSTANTS
    x = x
    y = y
    Daemon = daemon
    Delivery = {1}
    Cli = {x}
    ShardI <- NoShard
    ShardN <- OneShard
    IncludeFailed = {x}
    Excluded = {}
    PageSize = 1
    MaxAttempts = 2
    MaxVersion = 2
    MaxLog = 2
    MaxStops = 1
INVARIANTS
    TypeOK
    MarksAreCurrent
PROPERTY
    CompletedIsInRow
