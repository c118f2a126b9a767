\* One agent that ignores its context, and a case after it.
SPECIFICATION Spec
CONSTANTS
    CanonicalTasks <- MCTasks
    ProductionModels <- MCTwoModels
    DemoModel = "demo"
    Hash <- MCHash
    HookMetrics <- MCMetrics
    Obedient = {2}
    CfgLoopguard = 2
    Entries = {"integration"}
PROPERTY
    TripsOnOwnAgent
