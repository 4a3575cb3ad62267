SPECIFICATION FairSpec
CONSTANTS
    MaxStages = 2
    MaxTerminationHooks = 0
    MaxDeps = 1
    MaxSpawns = 2
    Operations = {"completedValue", "thenCompose"}
    External = {}
    FailureKinds = {"crash"}
    Provider = "sqlite3"
PROPERTIES
    FinishesWhenDrained
\* A flow is driven by its clients and stops when they do.
CHECK_DEADLOCK FALSE
