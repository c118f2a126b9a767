\* A clock that may be set back, a hash that takes one prompt for another, and
\* a request that leaves its model out.
SPECIFICATION FairSpec
CONSTANTS
    c1 = c1
    c2 = c2
    c3 = c3
    p1 = p1
    p2 = p2
    p3 = p3
    m = m
    other = other
    be = be
    none = none
    NoResp = NoResp
    NoReq = NoReq
    Prints = {p1, p2, p3}
    Models = {none, m, other}
    Backends = {be}
    NoModel = none
    DefaultModel <- MCDefaultModel
    JobIDs <- MCTriples
    Hash <- MCHashColliding
    TTL = 1
    MaxSize = 2
    Callers = {c1, c2}
    Direct = {}
    Asked <- MCAskedByDefault
    ClockSettings <- MCPast
    MaxCalls = 3
    MaxTime = 1
PROPERTIES
    KeepsPromise
    CallReturns
