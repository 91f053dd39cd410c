SPECIFICATION Spec
CONSTANTS
    None = None
    Procs = {p1, p2}
    Targets = {"t1", "t2"}
    Apertures = {1, 2, 3}
    PlanSteps = 2
    Objective <- ObjectiveOf
    Measured <- MeasuredOf
    Observations = {"o1", "o2"}
    Versions = {1, 2}
    Envelopes = {"e1", "e2", "e3", "e4", "e5", "e6"}
    Says <- SaysOf
    MaxFailures = 1
    MaxRewrites = 2
    Recorders = {r1, r2}
    Preparers = {c1}
    Requests = {"q1", "q2"}
    Installs <- InstallsOf
    Protocol <- ProtocolOf
    Destinations = {"d1", "d2", "d3", "d4"}
    MaxDeaths = 1
    Unknown = Unknown
    Malformed = Malformed
    Contracts <- SomeContracts
    Required <- RequiredFacts
    Deciding <- FactGroups
    Bundles <- BundleReasons
    Places = {"x1", "x2"}
    Rounds = {"n1"}
    MaxDecisions = 2
    Calibration = {"c0"}
    TrialRecords <- SomeTrials
    TrialProtocol <- ProtocolOfTrials
    Confident <- WilsonHolds
    Metrics = {"function", "cheapness"}
    Minimum <- MinimumOf
    Weight <- WeightOf
    Claims <- SomeClaims
    Runs <- SomeRuns
    RequiredControls = {"unmodified"}
    OwnControl <- NeedOf
    Pairs <- SomePairs
    Lineages <- SomeLineages
    MinimumGroups = 2
SYMMETRY Alike
CHECK_DEADLOCK FALSE
INVARIANTS
    SessionSound
    HandoffSound
    PlacementsStand
    ReadyIsEarned
PROPERTIES
    NothingTakenBack
