SPECIFICATION Spec
CONSTANTS
    Proc = {p, q}
    User = {u}
    Role = {"read", "admin"}
    Rank <- MCRank
    Schemas = {"absent", "old", "current"}
    MaxStarts = 4
    MaxFaults = 1
    MaxSeq = 2
    Nobody = Nobody
SYMMETRY Symmetric
INVARIANTS
    TypeOK
    EventsKept
    LeftoverOnlyIfInterrupted
    FreshIsWritable
    AsReported
PROPERTY
    AddDisplacesNobody
CHECK_DEADLOCK FALSE
