SPECIFICATION Spec
CONSTANTS
    t1 = t1
    t2 = t2
    k1 = k1
    k2 = k2
    k3 = k3
    d1 = d1
    d2 = d2
    Thread <- MCThread
    Key <- MCKey
    Document <- MCDocument
    Matches <- MCMatches
    cache_capacity = 2
    NoKey = NoKey
    NoDocument = NoDocument
    MaxClicks = 3
    MaxStarts = 1
SYMMETRY Symmetry
INVARIANTS CacheIsLRU StaleOnlyIfLate ClicksKept
