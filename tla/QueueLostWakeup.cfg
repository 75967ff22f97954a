CONSTANTS
    p1 = p1
    p2 = p2
    Processes <- OneProcess
    Jobs <- TwoJobs
    CurriculumJobs <- None
    BenchmarkJobs <- None
    CommitsInOrder = TRUE
    MaxStops = 0
    MaxStalls = 0
    MaxDbErrors = 0
SPECIFICATION FairSpec
CHECK_DEADLOCK FALSE
PROPERTIES
    QueueDrains
