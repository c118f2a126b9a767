\* One task for the three models: a case that is given up, one that waits behind
\* its agent, and one more; of the demo's cases one.  The agent of case 2 ignores
\* its context, the others heed it.
SPECIFICATION FairSpec
CONSTANTS
    CanonicalTasks <- MCTasks
    ProductionModels <- MCModels
    DemoModel = "demo"
    Hash <- MCHash
    HookMetrics <- MCMetrics
    Obedient = {1, 3}
    CfgLoopguard = 2
    Entries = {"integration", "demo"}
INVARIANTS
    SuiteTypeOK
    PassIsEarned
PROPERTIES
    TripsOnBudget
    RunsAsSuite
    SuiteEnds
    LockIsReached
