CONSTANTS
    q1 = q1
    q2 = q2
    e1 = e1
    d1 = d1
    d2 = d2
    c1 = c1
    c2 = c2
    c3 = c3
    Requests <- TwoRequests
    Evaluations <- OneEvaluation
    Contents = {0, 1, 2}
    Invalid = 0
    Current = 4
    Legacy = 3
    MaxRevisions = 3
    Editors <- TwoRequests
    Domains <- TwoDomains
    Criteria <- ThreeCriteria
    Codes = {"k1", "k2"}
    MaxPlace = 3
SPECIFICATION MCSpec
SYMMETRY Interchangeable
CHECK_DEADLOCK FALSE
INVARIANTS
    RubricsStand
PROPERTIES
    PublishedIsFrozen
