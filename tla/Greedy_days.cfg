SPECIFICATION Spec
CHECK_DEADLOCK FALSE
CONSTANTS
    p1 = p1
    p2 = p2
    p3 = p3
    p4 = p4
    s1 = s1
    a = a
    b = b
    NoRef = NoRef
    Refs = {p1, p2, p3, p4, s1}
    Regions = {a, b}
    Days = 2
    DayMinutes = 480
    CandidateSets <- MCMixed
    Approaches = {0, 240, 600}
    DefaultMinutes = 90
INVARIANT EnoughFillsEveryDay
INVARIANT OnlyHolesCanFail
INVARIANT NeverPacked
