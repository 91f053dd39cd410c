SPECIFICATION Spec
CONSTANTS
    None = None
    a = a
    b = b
    h = h
    l = l
    j = j
    s = s
    Procs = {1, 2}
    Paths = {a, b, h, l, j, s}
    Dir <- Directories
    Inodes = {1, 2, 3, 4, 5, 6}
    MaxSeq = 2
    MaxDeaths = 1
    MaxOutages = 1
    MaxFailures = 1
    LockPath = l
    LedgerPath = j
    Events = {1, 2}
    MaxEvents = 2
    Releases = {r1, r2, r3}
    MaxRevision = 5
    MaxKills = 2
    Files = {1, 2}
    Contents = {1, 2}
    Size <- SizeOf
    MaxFiles = 2
    MaxBytes = 3
    Roots = {1, 2}
    Readers = {1, 2}
    MaxChanges = 2
    MaxSwaps = 1
    MaxCaptures = 1
INVARIANTS
    FilesSound
    ReleasesRun
PROPERTIES
    KeepsLog
CHECK_DEADLOCK FALSE
