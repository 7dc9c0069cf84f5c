SPECIFICATION Spec
CONSTANTS
    h1 = h1
    h2 = h2
    w1 = w1
    w2 = w2
    Hash <- MCHash
    Worker <- MCWorker
    Page = {"index", "noindex"}
    NoPage = "none"
    MaxDocId = 3
    MaxStarts = 3
SYMMETRY Symmetry
INVARIANTS TypeOK DocIdsUnique DomainLeadsToDoc RecordsOfOnePage
PROPERTY IdsAreStable
CHECK_DEADLOCK FALSE
