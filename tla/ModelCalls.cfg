CONSTANTS
    r1 = r1
    r2 = r2
    p1 = p1
    p2 = p2
    p3 = p3
    u1 = u1
    u2 = u2
    Runs <- TwoRuns
    Limit = 2
    Rpm = 3
    Tpm = 4
    Window = 2
    Estimate = 1
    Usages = {2}
    MaxAttempts = 2
    FirstBackoff = 1
    MaxBackoff = 2
    RetryAfters = {0, 2}
    Envelopes = 2
    Timeout = 3
    Servers = {"s1", "s2"}
    LastInstant = 4
    Items <- Extracted
    ReferenceLimit = 2
    Urls <- ThreeUrls
    UnsafeUrls = {p3}
    RedirectLimit = 1
    Users <- TwoUsers
    MaxRequests = 4
    MaxGlobal = 2
    MaxPerUser = 1
    Wait = 1
    Cooldown = 2
    DistinctInstants = TRUE
    MaxTime = 3
SPECIFICATION MCSpec
SYMMETRY Interchangeable
CHECK_DEADLOCK FALSE
INVARIANTS
    NoOvertaking
    MatchIsEarned
    ChecksInTurn
PROPERTIES
    CallsInLimits
    AttemptsInTime
