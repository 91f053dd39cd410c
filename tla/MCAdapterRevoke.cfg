SPECIFICATION Spec
CONSTANTS
    a1 = a1
    b1 = b1
    c1 = c1
    d1 = d1
    None = None
    Manifests = {a1, b1, c1}
    Content <- Catalogue
    MaxRevisions = 5
    MaxPermits = 0
    MaxCalls = 0
INVARIANT RevocationAlwaysTakes
CHECK_DEADLOCK FALSE
