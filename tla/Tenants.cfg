\* One cached answer for each tenant; two chats and a pilot race for A, one chat for B.
SPECIFICATION Spec
CONSTANTS
    A = A
    B = B
    a1 = a1
    a2 = a2
    b1 = b1
    p1 = p1
    fp = fp
    fpA = fpA
    fpB = fpB
    m = m
    none = none
    be = be
    Prints = {fp, fpA, fpB}
    Models = {none, m}
    Backends = {be}
    NoModel = none
    DefaultModel <- MCDefaultModel
    JobIDs <- MCJobIDs
    Hash <- MCHashConstant
    TTL = 1
    MaxSize = 1
    Tenants = {A, B}
    NoTenant = NoTenant
    Chatters = {a1, a2, b1}
    Pilots = {p1}
    TenantOf <- MCTenantOf
    TenantPrint <- MCTenantPrint
    Asked <- MCAsked
    NoReq = NoReq
    NoResp = NoResp
    Quota <- MCQuota
    MaxTime = 1
INVARIANTS
    TypeOK
    OneCachePerTenant
PROPERTIES
    CacheKept
    TenantsIsolated
SYMMETRY MCSymmetry
