CONSTANTS
    b1 = b1
    s1 = s1
    s2 = s2
    p1 = p1
    w1 = w1
    w2 = w2
    admin = admin
    faculty = faculty
    book = book
    upload = upload
    evaluation = evaluation
    c1 = c1
    c2 = c2
    unmapped = unmapped
    gad = gad
    Backends <- OneBackend
    Syllabi <- TwoSyllabi
    MaxRequests = 4
    MaxStarts = 2
    MaxFailures = 2
    MaxLostAcks = 1
    Batches = 3
    MaxItems = 1
    CoverageBatch = 2
    MaxGroups = 2
    Contents = 3
    SyllabusBatch = 2
    Policies <- OnePolicy
    AreaOf <- Privacy
    Tried <- IpThenPrivacy
    ChunksOf = 2
    PolicyR2 = TRUE
    MaxPolicyFaults = 2
    MaxPolicyCrashes = 1
    Builders <- StaleAndSuccessor
    GenerationOf <- OneGeneration
    Generations <- BeforeAndNow
    Entries = 3
    WriteSize = 2
    ResultLimit = 2
    Asked = 2
    People <- AdminAndFaculty
    Admins <- OneAdmin
    Books <- OneBook
    MaxShelf = 2
    ChunkMax = 6
    ChunkDefault = 4
    ChunkOverlap = 1
    MergeBelow = 2
    PolicyMin = 2
    PolicyTarget = 4
    PolicyMax = 6
    SentenceSizes <- ShortToTooLong
    MaxSentences = 4
    MaxPages = 3
    TablesOnPage = 2
    RowsOfTable = 1
    Readers <- UploadAndEvaluation
    KeepsBlanks <- UploadOnly
    OcrMaxPages = 2
    OcrConcurrency = 1
    MaxSheets = 3
    MaxLines = 5
    MaxBoilerplateLines = 2
    HeaderScanLimit = 3
    Codes <- TwoCodes
    Unmapped = unmapped
    PageChars <- SmallAndLarge
    MaxSlmPages = 2
    PromptBudget = 2
    CallAttempts = 2
    MaxAnswerItems = 2
    Managed <- GadOnly
    Passages = 6
    MaxSlmChunks = 4
    Anchors = 3
    PerAnchor = 2
    MostPassages = 5
    MaxPrompts = 2
    MaxRebuilds = 2
SPECIFICATION MCSpec
CHECK_DEADLOCK FALSE
INVARIANTS
    OwnAnswerWhileAcked
    VerdictsStand
    LibraryStands
PROPERTIES
    RunSettles
