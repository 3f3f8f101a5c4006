SPECIFICATION Spec
CHECK_DEADLOCK FALSE
CONSTANTS
    p1 = p1
    p2 = p2
    s1 = s1
    invented = invented
    region = region
    NoRef = NoRef
    None = None
    Refs = {p1, p2, s1, invented}
    Regions = {region}
    Days = 2
    DayMinutes = 480
    CandidateSets <- MCCandidates
    Universe <- MCDrafts
    MaxRepairs = 1
    Models = {FALSE, TRUE}
INVARIANT NothingIsDropped
INVARIANT PlanIsSound
INVARIANT FallbackIsVisible
INVARIANT WarningsSpeakOfThePlan
INVARIANT CallsAreBounded
