CONSTANTS
    None = None
    e1 = e1
    e2 = e2
    i1 = i1
    i2 = i2
    o1 = o1
    o2 = o2
    c1 = c1
    c2 = c2
    d1 = d1
    d2 = d2
    m1 = m1
    r1 = r1
    r2 = r2
    Visits <- TwoRequests
    Emails <- TwoEmails
    Ids <- TwoIds
    MaxTokens = 2
    MaxTries = 1
    MaxReviews = 2
    Objectives <- TwoObjectives
    Courses <- TwoCourses
    Seeded <- OneSeeded
    SeededCourses <- OneSeededCourse
    Canonical <- OneMapping
    CourseProgram <- OneCourseEach
    Editors <- TwoRequests
    MaxVersion = 2
    MaxSetVersion = 3
    Documents <- TwoDocuments
    Modules <- OneModule
    ModuleOf <- SameModule
    Scores <- LowAndHigh
    MaxJobs = 3
    Docs <- OneDocument
    R2 = TRUE
    MaxDeletes = 2
    MaxCrashes = 2
    MaxFaults = 3
SPECIFICATION MCSpec
SYMMETRY Interchangeable
CHECK_DEADLOCK FALSE
INVARIANTS
    DocumentsStand
PROPERTIES
    AccountsEarned
    CatalogueStands
    FailureKeepsDomains
