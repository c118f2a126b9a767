\* What becomes of a case that sets no verdict.
SPECIFICATION Spec
CONSTANTS
    p1 = p1
    p2 = p2
    Procs = {p1, p2}
    CanonicalTasks <- MCTasks
    ProductionModels <- MCModels
    DemoModel = "MiniMax-M3"
    Hash <- MCHash
    HookMetrics <- MCMetrics
    Scenarios <- MCScenarios
    CaseCost <- MCCaseCost
    MaxUSD <- MCMaxUSD
    MaxShort = 1
INVARIANT
    EmptyVerdictFails
