SPECIFICATION PartsSpec
CONSTANTS
    None = None
    p = p
    q = q
    good = good
    bad = bad
    odd = odd
    w1 = w1
    w2 = w2
    Contracts <- OfferedContracts
    Content <- Contents
    Observations <- Seeing
    Closed <- GoodOnly
    Nodes <- FiveNodes
    Duty <- DutyOf
    Verified <- WithClosureVerifier
    Blobs <- Files
    MaxAttempts = 2
    Workers <- TwoWorkers
    MaxCrashes = 1
    Candidates = {1, 2}
    Plans <- Legal
INVARIANTS
    ClaimsHoldUp
    BudgetWellSpent
PROPERTIES
    HistoryOnlyGrows
    EveryCallEnds
CHECK_DEADLOCK FALSE
