\* Two processes on the same files; two of the demo's seven tasks; one write cut
\* short.
SPECIFICATION FairSpec
CONSTANTS
    p1 = p1
    p2 = p2
    Procs = {p1, p2}
    CanonicalTasks <- MCTasks
    ProductionModels <- MCModels
    DemoModel = "MiniMax-M3"
    Hash <- MCHash
    HookMetrics <- MCMetrics
    Scenarios <- MCScenarios
    CaseCost <- MCCaseCost
    MaxUSD <- MCMaxUSD
    MaxShort = 1
INVARIANTS
    TypeOK
    Accountable
    PassMeansAllPassed
    MetricsTellRun
    LossBounded
PROPERTY
    CommandsEnd
