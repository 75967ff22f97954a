CONSTANTS
    p1 = p1
    p2 = p2
    Processes <- TwoProcesses
    Jobs <- OneJob
    CurriculumJobs <- OneJob
    BenchmarkJobs <- None
    CommitsInOrder = FALSE
    MaxStops = 1
    MaxStalls = 1
    MaxDbErrors = 2
SPECIFICATION Spec
SYMMETRY Symmetry
CHECK_DEADLOCK FALSE
INVARIANTS
    CompletedIsBacked
    MatrixFollowsJob
PROPERTIES
    ResultsWrittenOnce
