CONSTANTS
    p1 = p1
    p2 = p2
    Processes <- TwoProcesses
    Jobs <- TwoJobs
    CurriculumJobs <- SecondJob
    BenchmarkJobs <- SecondJob
    CommitsInOrder = FALSE
    MaxStops = 1
    MaxStalls = 1
    MaxDbErrors = 0
SPECIFICATION Spec
SYMMETRY Symmetry
CHECK_DEADLOCK FALSE
INVARIANTS
    OneRunning
    IInv
PROPERTIES
    OnlyOwnerMoves
    ImplementsLedger
