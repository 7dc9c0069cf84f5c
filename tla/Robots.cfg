SPECIFICATION Spec
CONSTANTS
    a = a
    b = b
    w1 = w1
    w2 = w2
    Worker <- MCWorker
    URL <- MCURL
    Seeds <- MCSeeds
    Links <- MCLinks
    File <- MCFile
    NoURL = NoURL
    Unknown = Unknown
SYMMETRY Symmetry
INVARIANTS TypeOK ObeysRobots BlocksOnlyForbidden
