CONSTANTS
    d1 = d1
    d2 = d2
    m1 = m1
    k1 = k1
    k2 = k2
    Documents <- TwoDocuments
    Modules <- OneModule
    ModuleOf <- SameModule
    Scores <- LowAndHigh
    MaxJobs = 6
    Schedules <- SinglesAndBundle
    SmeEnvelopes = 2
    Models = {"m1", "m2"}
    Criteria = 2
    Chunks <- TwoChunks
    Bands <- LowAndGood
    ListLimit = 3
    ContractLimit = 3
    Kept = 2
    Shown = 2
    Cited = 2
    CodesOf <- TwoRevisions
    Marks <- OneAndThree
    Slms <- OneSlm
    MaxRuns = 2
    MaxPreloads = 2
SPECIFICATION MCSpec
CHECK_DEADLOCK FALSE
INVARIANTS
    CompositeIsCurrent
    LatestAnswersShown
    FlagsNotInflated
    DispatchSound
    ResultsReload
    RowsAreMeasured
    BenchmarksStand
PROPERTIES
    DispatchEnds
