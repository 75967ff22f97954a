CONSTANTS
    j1 = j1
    j2 = j2
    j3 = j3
    d1 = d1
    d2 = d2
    r1 = r1
    a1 = a1
    g1 = g1
    g2 = g2
    g3 = g3
    x1 = x1
    p1 = p1
    c1 = c1
    i1 = i1
    i2 = i2
    n1 = n1
    n2 = n2
    n3 = n3
    k1 = k1
    k2 = k2
    k3 = k3
    v1 = v1
    v2 = v2
    e1 = e1
    Jobs <- ThreeJobs
    Downloads <- TwoDownloads
    Uploads <- ThreeUploads
    Reports <- OneReport
    Reported <- TwoStages
    MaxRetries = 2
    MaxFaults = 1
    Adapters <- OneAdapter
    GgufUploads <- ThreeGgufUploads
    Removals <- OneRemoval
    MaxGgufFaults = 1
    Feedbacks <- ThreeFeedbacks
    Plain <- PlainCriterion
    Counted <- CountedCriterion
    Items <- TwoItems
    Values <- TwoValues
    Recorded <- RecordedOne
    Qualifying <- OneQualifies
    Activations <- TwoActivations
    NotebookJobs <- Notebooks
    Packages <- ThreePackages
    Package <- PackageOf
    Pairs <- PairsOf
    Document <- DocumentOf
    Prompt <- PromptOf
    HashRank <- Rank
    Gpus <- TwoGpus
    TooLong <- TooLongOf
    MinPairs = 4
    Percent = 20
    MaxRuns = 2
    LoraAdapters <- TwoVersions
    Agent <- AgentOf
    Version <- VersionOf
    Contents <- TwoContents
    KeepLatest = 1
    Evaluations <- OneEvaluation
    MaxChanges = 2
    MaxRestarts = 2
    Scored = {"content", "language"}
    MinScore = 1
    MaxScore = 3
    MinDecisive = 6
    Alpha = 5
    MaxHeldout = 10
SPECIFICATION MCSpec
SYMMETRY Interchangeable
CHECK_DEADLOCK FALSE
INVARIANTS
    OneUseLinks
    AdaptersStand
    PairsStand
    HandedBackAsTrained
    VerdictIsEarned
PROPERTIES
    StageForward
    RecordedAdapterServes
    ServesPublished
