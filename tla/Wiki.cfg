SPECIFICATION FairWikiSpec
CONSTANTS
    h1 = h1
    h2 = h2
    item = item
    machine = machine
    Handlers = {h1, h2}
    Entries <- MCEntries
    Makers <- MCMakers
    Pages <- MCPages
    WikiTimeout = 1
    ShutdownTimeout = 2
    MaxWork = 4
    None = None
INVARIANTS
    TypeOK
    RequestsTypeOK
    CutOffOnlyAfterTimeout
    ListenErrorIsReported
    OnlyManyPagesAreTooMuch
    FetchedForAll
PROPERTIES
    HandlersReturn
    ProcessEnds
\* The process ends.
CHECK_DEADLOCK FALSE
