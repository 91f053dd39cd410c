CONSTANTS
    c0 = c0
    c1 = c1
    i0 = i0
    i1 = i1
    b0 = b0
    b1 = b1
    None = None
    Corpora = {c0, c1}
    Provided <- MCProvided
    Promotable = {c0, c1}
    Inputs = {i0, i1}
    Bundles = {b0, b1}
    NewCorpus <- MCNewCorpus
    Attests <- MCAttests
    MaxGen = 1
    MaxCrashes = 2
    MaxInstalls = 1
SPECIFICATION Spec
CHECK_DEADLOCK FALSE
INVARIANT RollbackOnlyUntouched
