SPECIFICATION Spec
CONSTANTS
    Job = {i, j}
    File = {a, b}
    OutputOf <- MCOutputOf
    Version <- MCVersions
    Chunks <- MCChunks
    Schema <- MCSchema
    Castable <- MCCastable
    MaxFaults = 1
    MaxChanges = 1
    Absent = Absent
SYMMETRY Symmetric
INVARIANTS
    TypeOK
    TmpOnlyIfKilled
    OneVersionUnlessReplaced
    ReportedIsThere
PROPERTY
    ReadersSeeWholeFiles
CHECK_DEADLOCK FALSE
