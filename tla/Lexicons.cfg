SPECIFICATION Spec
CONSTANTS
    LexiconIds <- MCIds
    Files <- MCFiles
    IdOf <- MCIdOf
    Directories <- MCDirectories
    Hooks <- MCHooks
    RootLexicons <- MCRoots
    MaxDepth = 2
    Unreadable = Unreadable
    NoDirectory = NoDirectory
INVARIANTS
    TypeOK
    LoadedIsSound
    InheritsNearest
    RejectedForCause
CHECK_DEADLOCK FALSE
