SPECIFICATION Spec
CONSTANTS
    None = None
    MaxDimension = 8
    MaxElements = 16
    MaxBlocks = 4
    AdviceContents <- Advising
    RecordContents <- Correcting
    OneProblem <- OneFailure
    BothProblems <- TwoFailures
    Likeness <- Alike
    Solve <- SolveTable
    Judge <- Verdicts
    Tasks <- TaskSet
    Offers <- OffersTable
    Generous <- Unlimited
    Digests <- DigestTable
INVARIANT LineageHeadStored
CHECK_DEADLOCK FALSE
