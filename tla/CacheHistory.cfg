\* Two callers of the cache and one without it; three jobs for two places.
SPECIFICATION HSpec
CONSTANTS
    c1 = c1
    c2 = c2
    c3 = c3
    p1 = p1
    p2 = p2
    p3 = p3
    m = m
    other = other
    be = be
    none = none
    NoResp = NoResp
    NoReq = NoReq
    Prints = {p1, p2, p3}
    Models = {none, m, other}
    Backends = {be}
    NoModel = none
    DefaultModel <- MCDefaultModel
    JobIDs <- MCTriples
    Hash <- MCHashInjective
    TTL = 1
    MaxSize = 2
    Callers = {c1, c2, c3}
    Direct = {c3}
    Asked <- MCAskedTwoModels
    ClockSettings <- MCNoSettings
    MaxCalls = 3
    MaxTime = 2

INVARIANTS
    TypeOK
    CapacityBound
    StatsAccount
    EveryBillCounted
    EntriesPaidFor
    AnswersRequest
    Retention
    RedialJustified
SYMMETRY MCCallerSymmetry
