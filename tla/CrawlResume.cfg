SPECIFICATION ResumeSpec
CONSTANTS
    u1 = u1
    u2 = u2
    u3 = u3
    u4 = u4
    URL <- MCURL
    HostOf <- MCHostOf
    Priority <- MCPriority
    MAX_RETRY_COUNT = 2
    Worker = {w1, w2}
    NoURL = NoURL
    Seeds <- MCSeeds
    Links <- MCLinks
    same_domain = TRUE
    DomainOf <- MCDomainOf
    Subdomain <- MCSubdomain
    Body <- MCBody
    RetryOutcome = {"FAILED"}
    MaxResumes = 2
    Interrupts = FALSE
SYMMETRY Symmetry
INVARIANTS ResumeTypeOK CrashSafe ResumeComplete StaysInDomain
PROPERTY MarkOutlivesWork
