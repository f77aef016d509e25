SPECIFICATION Spec
CONSTANTS
    d1 = d1
    d2 = d2
    f1 = f1
    f2 = f2
    None = None
    Delivery = {d1}
    LexiconId <- Lexicons
    Status <- QAStatus
    Field <- Keys
    Fingerprint = {f1}
    Statuses <- QAStatuses
    Transitions <- QATransitions
    SetOn <- QASetOn
    Patch <- Patches
    MaxEvents = 3
INVARIANTS
    TypeOK
    CreatedOnceAndFirst
    EventsTellStatus
    EventsCarryStamps
PROPERTY
    ToldTransitionsLegal
