SPECIFICATION FairSpec
CONSTANTS
    Handlers = {h1, h2}
    BatchSize = 2
    MaxBuffered = 3
    MaxEntries = 4
    MaxOutages = 2
INVARIANTS
    OnlyOldestDropped
    OldestFirst
    AckedNeverAgain
    FullBatchSignalled
PROPERTIES
    EventuallyExported
CHECK_DEADLOCK FALSE
