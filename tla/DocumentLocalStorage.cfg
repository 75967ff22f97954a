CONSTANTS
    Docs = {d1}
    R2 = FALSE
    MaxDeletes = 0
    MaxCrashes = 0
    MaxFaults = 0
SPECIFICATION AssetsSpec
CHECK_DEADLOCK FALSE
INVARIANTS
    StoredSourceIsWhole
