SPECIFICATION Spec
CONSTANTS
    u1 = u1
    u2 = u2
    u3 = u3
    URL <- MCURL
    HostOf <- MCHostOf
    Priority <- MCPriority
    MAX_RETRY_COUNT = 3
    Worker = {w1, w2}
    NoURL = NoURL
SYMMETRY Symmetry
INVARIANTS TypeOK ActiveIsBusy OnePlace PendingIsSomewhere RetryBudget NoEarlyExit
PROPERTY OutcomeIsFinal
