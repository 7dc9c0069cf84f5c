SPECIFICATION ResumeSpec
CONSTANTS
    u1 = u1
    u2 = u2
    u3 = u3
    u4 = u4
    URL <- MCURL
    HostOf <- MCHostOf
    Priority <- MCPriority
    MAX_RETRY_COUNT = 2
    Worker = {w1, w2}
    NoURL = NoURL
    Seeds <- MCSeeds
    Links <- MCLinks
    same_domain = FALSE
    DomainOf <- MCDomainOf
    Subdomain <- MCSubdomain
    Body <- MCURL
    RetryOutcome = {"FAILED"}
    MaxResumes = 1
    Interrupts = TRUE
SYMMETRY Symmetry
INVARIANT ResumeComplete
