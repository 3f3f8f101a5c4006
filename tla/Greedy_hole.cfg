SPECIFICATION Spec
CHECK_DEADLOCK FALSE
CONSTANTS
    p1 = p1
    p2 = p2
    p3 = p3
    p4 = p4
    s1 = s1
    a = a
    b = b
    NoRef = NoRef
    Refs = {p1, p2, p3, p4, s1}
    Regions = {a, b}
    Days = 3
    DayMinutes = 480
    CandidateSets <- MCShort
    Approaches = {0}
    DefaultMinutes = 90
INVARIANT FallbackIsValid
