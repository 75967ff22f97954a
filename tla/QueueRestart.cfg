CONSTANTS
    p1 = p1
    p2 = p2
    Processes <- OneProcess
    Jobs <- TwoJobs
    CurriculumJobs <- None
    BenchmarkJobs <- None
    CommitsInOrder = TRUE
    MaxStops = 2
    MaxStalls = 1
    MaxDbErrors = 1
SPECIFICATION FairSpec
CHECK_DEADLOCK FALSE
PROPERTIES
    ClaimedJobFinishes
    BusyDrainerServes
