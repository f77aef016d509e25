SPECIFICATION FairSpec
CONSTANTS
    a = a
    b = b
    Crawl = {a, b}
    Path <- AllPaths
    Shares <- SomeShares
    Unsettled <- Moving
    Root <- Roots
    Target <- RootTarget
    RootLexicon <- RootLexicons
    Exclusions = {"nsdp"}
    LexiconId <- Lexicons
    Installed <- Installs
    Status <- QAStatus
    Statuses <- QAStatuses
    Transitions <- QATransitions
    DirMap <- QADirMap
    SubDirs <- QASubDirs
    Hooked = {"soc.qar"}
    Parsed <- Names
    MaxAttempts = 2
    MaxChanges = 1
    MaxFaults = 1
    MaxPatches = 1
    NoDelivery = NoDelivery
INVARIANTS
    TypeOK
    CleanCrawlAgrees
PROPERTIES
    CrawlsMoveForward
    EventuallyAgrees
