SPECIFICATION Spec
CONSTANTS
    u1 = u1
    u2 = u2
    URL <- MCURL
    Hash <- MCHash
    UrlOf <- MCUrlOf
    Sha <- MCSha
    Legacy <- MCLegacy
    NoRecord = NoRecord
    MaxDocId = 4
    MaxRuns = 2
    MaxCrawls = 1
INVARIANTS LowestIdStays CleanedUp
PROPERTIES RightEntryStays NewIdsAreFresh
CHECK_DEADLOCK FALSE
