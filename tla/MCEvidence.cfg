SPECIFICATION Spec
CONSTANTS
    None = None
    Petfc <- Limits
    Estimates <- AnyEstimates
    Contractual <- ContractEstimates
    Rows <- AllRows
    Policy <- AtMostThree
    Contract <- Contracts
    NoContract <- NoneAgreed
    Procs = {p1, p2}
    p1 = p1
    p2 = p2
    Parts <- Layout
    Versions = {1, 2}
    WeightMap <- Indexes
    Supported = {1}
    MaxRewrites = 2
    MaxDeaths = 1
    Requests <- Asked
    Modified = "w"
    Claims <- Presented
    Callers = {c1, c2}
    c1 = c1
    c2 = c2
    NonFinite = NonFinite
    Reveals <- BothWays
    Maps <- Discoverable
    Runners = {"u", "v"}
    Faithful = {"u"}
    Allowances = {1}
    Sandboxed <- RequestsMade
    Chunk = 2
    MaxPrinted = 2
SYMMETRY Alike
INVARIANTS
    EstimatesSound
    ImportsSound
    OutputsSound
    ChallengeSound
    IsolationSound
PROPERTIES
    ViolationSticks
CHECK_DEADLOCK FALSE
