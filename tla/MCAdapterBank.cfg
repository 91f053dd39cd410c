SPECIFICATION Spec
CONSTANTS
    a1 = a1
    b1 = b1
    c1 = c1
    d1 = d1
    None = None
    Manifests = {a1, b1, c1, d1}
    Content <- Catalogue
    MaxRevisions = 6
    MaxPermits = 3
    MaxCalls = 1
CONSTRAINT Regions
INVARIANTS
    TypeOK
    BuiltIsAccepted
    ResolutionOnSoundFooting
    RefusalMeansOvertaken
PROPERTIES
    KeepsPromise
CHECK_DEADLOCK FALSE
