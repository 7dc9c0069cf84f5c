SPECIFICATION Spec
CONSTANTS
    w1 = w1
    w2 = w2
    Worker <- MCWorker
    u1 = u1
    u2 = u2
    URL <- MCURL
    Depth <- MCDepth
    Ending <- MCEnding
    x = x
    y = y
    Content <- MCContent
    NoContent = NoContent
    Code = {0, 200, 204, 404, 429, 503}
    Limit = 2
    MAX_RETRY_COUNT = 2
    Unit = 64
    Wait = {100}
    MaxTime = 201
    MaxSessions = 2
    MaxAgain = 1
SYMMETRY Symmetry
INVARIANTS NeverForgotten ChangesCounted FailuresPerSession
PROPERTY BackoffGrows
CHECK_DEADLOCK FALSE
