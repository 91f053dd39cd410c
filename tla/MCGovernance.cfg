SPECIFICATION PartsSpec
CONSTANTS
    None = None
    Metrics <- TwoMetrics
    Higher <- HigherScore
    Contract <- Contracts
    Quality = "score"
    Weight <- Ones
    Petfc <- Limits
    Reports <- Offered
    Content <- Tabulated
    Gate <- GatePolicy
    Stages <- TwoStages
    Canary <- CanaryPolicy
    Buckets <- Hashes
    MaxTrajectory = 3
    Ids = {1, 2, 3}
    Values = {0, 1, 2}
    Manifests = {"a1", "a2", "a2q", "a3", "b1", "b2", "a1b", "b1a"}
    Catalogue <- Successors
INVARIANTS
    PromotionEarned
    LineageUnbroken
PROPERTIES
    SelectionSound
    ExposureGrowsUntilRollback
CHECK_DEADLOCK FALSE
