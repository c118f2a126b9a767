\* RunIntegrationSuite with the zero Config.
SPECIFICATION Spec
CONSTANTS
    CanonicalTasks <- MCTasks
    ProductionModels <- MCTwoModels
    DemoModel = "demo"
    Hash <- MCHash
    HookMetrics <- MCMetrics
    Obedient = {1, 2}
    CfgLoopguard = 0
    Entries = {"integration"}
PROPERTY
    TripsOnBudget
